---------------------------- MODULE Spec2Model ----------------------------
(***************************************************************************)
(* A model of the message router of WDC Labs AI (app/orchestrator.py) and  *)
(* of the structured-output parsing done by its agents (app/agents).       *)
(* The /chat route (route_message) and the intent classifier              *)
(* (app/intent_classifier.py) are modelled as well.                        *)
(*                                                                         *)
(* Text is modelled character by character: a Python str is a sequence of  *)
(* one-character strings, so that lower(), strip(), title(), the "in"     *)
(* substring test, the regular expression and the JSON decoder are         *)
(* computed as the code computes them.  The grave accent (U+0060) cannot   *)
(* be written inside a TLA+ string; the atom Tick stands for it.  Any      *)
(* character outside printable ASCII other than tab, newline, form feed    *)
(* and carriage return is the atom U+ followed by its code point in        *)
(* hexadecimal.  The messages and the answers of the language model are    *)
(* ASCII; such atoms come from the escapes of JSON strings.  The case      *)
(* mappings know the letters of ASCII only.                                *)
(***************************************************************************)
EXTENDS Integers, Sequences, FiniteSets, TLC

VARIABLES
    op,             \* the operation that was called
    pc,             \* position of its coroutine
    task_title,     \* argument task_title of a structured operation
    message,        \* determine_agent's argument message
    context,        \* determine_agent's argument context (the two flags it reads)
    response,       \* outcome of the awaited model call
    result,         \* what the operation returned or raised
    model_calls,    \* number of generate_content_async calls issued
    fallback_calls, \* number of _fallback_routing calls made
    agent,          \* route_message's local agent: what determine_agent gave
    earlier,        \* the inputs and outcome of the invocation made before
    review,         \* Orchestrator.review_submission's local review
    chat_history,   \* the caller's list of turns given to respond_to_message
    prompt          \* the prompt respond_to_message gave to the model

vars == <<op, pc, task_title, message, context, response, result, model_calls,
          fallback_calls, agent, earlier, review, chat_history, prompt>>

---------------------------------------------------------------------------
(* Characters and the str methods the code uses                            *)

LowerLetters == <<"a","b","c","d","e","f","g","h","i","j","k","l","m","n","o","p","q","r","s","t","u","v","w","x","y","z">>

UpperLetters == <<"A","B","C","D","E","F","G","H","I","J","K","L","M","N","O","P","Q","R","S","T","U","V","W","X","Y","Z">>

\* the whitespace of the model's alphabet: what str.strip() removes
PyWhitespace ==
    {" ", "\n", "\t", "\r", "\f", "U+b", "U+1c", "U+1d", "U+1e", "U+1f",
     "U+85", "U+a0", "U+1680", "U+2000", "U+2001", "U+2002", "U+2003",
     "U+2004", "U+2005", "U+2006", "U+2007", "U+2008", "U+2009", "U+200a",
     "U+2028", "U+2029", "U+202f", "U+205f", "U+3000"}

IsLower(c) == \E i \in 1..26 : LowerLetters[i] = c

IsUpper(c) == \E i \in 1..26 : UpperLetters[i] = c

IsCased(c) == IsLower(c) \/ IsUpper(c)

LowerChar(c) ==
    IF IsUpper(c) THEN LowerLetters[CHOOSE i \in 1..26 : UpperLetters[i] = c] ELSE c

UpperChar(c) ==
    IF IsLower(c) THEN UpperLetters[CHOOSE i \in 1..26 : LowerLetters[i] = c] ELSE c

\* str.lower()
Lower(s) == [i \in 1..Len(s) |-> LowerChar(s[i])]

\* str.strip(): drop leading and trailing whitespace
Strip(s) ==
    LET keep == {i \in 1..Len(s) : s[i] \notin PyWhitespace}
    IN  IF keep = {} THEN <<>>
        ELSE LET lo == CHOOSE i \in keep : \A j \in keep : i <= j
                 hi == CHOOSE i \in keep :
                           \A j \in (i + 1)..Len(s) : s[j] \in PyWhitespace
             IN  SubSeq(s, lo, hi)

\* str.title(): a cased character is upper-cased when the character before it
\* is not cased (or there is none), and lower-cased otherwise
Title(s) ==
    [i \in 1..Len(s) |->
        IF i > 1 /\ IsCased(s[i - 1]) THEN LowerChar(s[i]) ELSE UpperChar(s[i])]

\* k in s, for two strs
Contains(k, s) ==
    \E i \in 0..(Len(s) - Len(k)) : \A j \in 1..Len(k) : s[i + j] = k[j]

---------------------------------------------------------------------------
(* app/schemas.py                                                          *)

\* the members of the enum AgentName, by name
AgentNameMembers ==
    [TOLU |-> "Tolu", EMEM |-> "Emem", SOLA |-> "Sola", KEMI |-> "Kemi"]

AgentName == {AgentNameMembers[n] : n \in DOMAIN AgentNameMembers}

Return(v) == [kind |-> "return", value |-> v]

Raise(e) == [kind |-> "raise", value |-> e]

NoResult == [kind |-> "none", value |-> "none"]

\* the expression AgentName.<name>: the member, or AttributeError when the
\* enum has no member of that name
AgentNameAttr(name) ==
    IF name \in DOMAIN AgentNameMembers
    THEN Return(AgentNameMembers[name])
    ELSE Raise("AttributeError")

---------------------------------------------------------------------------
(* Orchestrator.determine_agent: the hard rules                            *)

RecommendationPhrases == <<
    <<"r","e","c","o","m","m","e","n","d","a","t","i","o","n"," ","l","e","t","t","e","r">>,
    <<"r","e","f","e","r","e","n","c","e"," ","l","e","t","t","e","r">>,
    <<"r","e","f","e","r","e","e">>,
    <<"1","2"," ","w","e","e","k","s"," ","r","e","c","o","m","m","e","n","d","a","t","i","o","n">>,
    <<"2","4"," ","w","e","e","k","s"," ","r","e","c","o","m","m","e","n","d","a","t","i","o","n">> >>

ContainsAny(keys, msg) == \E i \in 1..Len(keys) : Contains(keys[i], msg)

\* mutant: the first-login rule tested before the submission rule
HardRules_FirstLoginFirst(msg, ctx) ==
    IF ctx.is_first_login THEN AgentNameAttr("TOLU")
    ELSE IF ctx.is_submission THEN AgentNameAttr("SOLA")
    ELSE IF ContainsAny(RecommendationPhrases, msg) THEN AgentNameAttr("RECOMMENDER")
    ELSE NoResult

\* mutant: the phrase rule tested before the first-login rule
HardRules_PhraseFirst(msg, ctx) ==
    IF ctx.is_submission THEN AgentNameAttr("SOLA")
    ELSE IF ContainsAny(RecommendationPhrases, msg) THEN AgentNameAttr("RECOMMENDER")
    ELSE IF ctx.is_first_login THEN AgentNameAttr("TOLU")
    ELSE NoResult

\* The hard rules, in the order of the code.  The outcome is a return, a raise,
\* or NoResult when no rule fires and the code goes on to the model call.
HardRules(msg, ctx) ==
    IF ctx.is_submission THEN AgentNameAttr("SOLA")
    ELSE IF ctx.is_first_login THEN AgentNameAttr("TOLU")
    ELSE IF ContainsAny(RecommendationPhrases, msg) THEN AgentNameAttr("RECOMMENDER")
    ELSE NoResult

---------------------------------------------------------------------------
(* Orchestrator._fallback_routing                                          *)

emotional_keywords == <<
    <<"w","o","r","r","i","e","d">>, <<"s","c","a","r","e","d">>, <<"h","e","l","p">>, <<"s","t","r","u","g","g","l","e">>, <<"s","t","u","c","k">>,
    <<"c","o","n","f","u","s","e","d">>, <<"l","o","s","t">>, <<"s","c","a","r","e","d">>, <<"a","n","x","i","o","u","s">>, <<"s","t","r","e","s","s","e","d">> >>

career_keywords == <<
    <<"r","e","s","u","m","e">>, <<"c","v">>, <<"i","n","t","e","r","v","i","e","w">>, <<"p","o","r","t","f","o","l","i","o">>, <<"c","a","r","e","e","r">>,
    <<"c","o","n","f","i","d","e","n","c","e">>, <<"s","k","i","l","l">>, <<"g","r","o","w","t","h">>, <<"j","o","b">> >>

task_keywords == <<
    <<"d","e","a","d","l","i","n","e">>, <<"b","r","i","e","f">>, <<"t","a","s","k">>, <<"p","r","o","j","e","c","t">>, <<"c","l","i","e","n","t">>,
    <<"d","e","l","i","v","e","r","a","b","l","e">>, <<"s","u","b","m","i","t">>, <<"d","u","e">>, <<"w","h","e","n">> >>

tech_keywords == <<
    <<"c","o","d","e">>, <<"d","e","b","u","g">>, <<"e","r","r","o","r">>, <<"b","u","g">>, <<"f","u","n","c","t","i","o","n">>,
    <<"v","a","r","i","a","b","l","e">>, <<"s","y","n","t","a","x">>, <<"p","y","t","h","o","n">>, <<"j","a","v","a","s","c","r","i","p","t">>, <<"f","i","x">> >>

hr_keywords == <<
    <<"s","a","l","a","r","y">>, <<"c","o","n","t","r","a","c","t">>, <<"p","o","l","i","c","y">>, <<"c","e","r","t","i","f","i","c","a","t","e">>, <<"c","e","r","t","i","f","i","c","a","t","e">>,
    <<"o","n","b","o","a","r","d","i","n","g">>, <<"a","d","m","i","n">>, <<"h","o","u","r","s">>, <<"l","e","a","v","e">> >>

\* sum(1 for k in keywords if k in msg): one per list entry found in msg
KeywordCount(keywords, msg) ==
    Cardinality({i \in 1..Len(keywords) : Contains(keywords[i], msg)})

\* the dict scores, keys in insertion order
ScoreOrder == <<"Kemi", "Emem", "Sola", "Tolu">>

\* mutant: the career vocabulary does not count for Kemi
Scores_EmotionalOnly(msg) ==
    [a \in AgentName |->
        CASE a = "Kemi" -> KeywordCount(emotional_keywords, msg)
          [] a = "Emem" -> KeywordCount(task_keywords, msg)
          [] a = "Sola" -> KeywordCount(tech_keywords, msg)
          [] a = "Tolu" -> KeywordCount(hr_keywords, msg)]

Scores(msg) ==
    [a \in AgentName |->
        CASE a = "Kemi" -> KeywordCount(emotional_keywords, msg)
                             + KeywordCount(career_keywords, msg)
          [] a = "Emem" -> KeywordCount(task_keywords, msg)
          [] a = "Sola" -> KeywordCount(tech_keywords, msg)
          [] a = "Tolu" -> KeywordCount(hr_keywords, msg)]

\* max(scores, key=scores.get): the first key, in insertion order, whose score
\* no other key exceeds
MaxKey(scores) ==
    LET best == CHOOSE i \in 1..Len(ScoreOrder) :
                    /\ \A j \in 1..Len(ScoreOrder) :
                           scores[ScoreOrder[j]] <= scores[ScoreOrder[i]]
                    /\ \A j \in 1..(i - 1) :
                           scores[ScoreOrder[j]] < scores[ScoreOrder[i]]
    IN  ScoreOrder[best]

\* mutant: no default when every score is zero
_fallback_routing_NoDefault(msg) == MaxKey(Scores(msg))

_fallback_routing(msg) ==
    LET scores == Scores(msg)
        best_agent == MaxKey(scores)
    IN  IF \A a \in AgentName : scores[a] = 0 THEN "Sola" ELSE best_agent

---------------------------------------------------------------------------
(* Orchestrator.determine_agent: the AI classifier                         *)

\* agent_map, keyed by the str the code looks up
agent_map_keys == << <<"T","o","l","u">>, <<"E","m","e","m">>, <<"S","o","l","a">>, <<"K","e","m","i">> >>

agent_map_values == <<"Tolu", "Emem", "Sola", "Kemi">>

\* mutant: the answer is not title-cased
AgentRaw_NoTitle(text) == Strip(text)

\* response.text.strip().title()
AgentRaw(text) == Title(Strip(text))

\* agent_map.get(agent_raw, None)
AgentMapGet(agent_raw) ==
    IF \E i \in 1..4 : agent_map_keys[i] = agent_raw
    THEN agent_map_values[CHOOSE i \in 1..4 : agent_map_keys[i] = agent_raw]
    ELSE "None"

\* mutant: an unrecognised answer that mentions an agent is taken for that agent
OnModelAnswer_Guess(msg, text) ==
    LET agent_raw == AgentRaw(text)
        detected_agent == AgentMapGet(agent_raw)
        named == {i \in 1..4 : Contains(agent_map_keys[i], agent_raw)}
    IN  IF detected_agent # "None"
        THEN [outcome |-> Return(detected_agent), fallback |-> 0]
        ELSE IF named # {}
        THEN [outcome |-> Return(agent_map_values[CHOOSE i \in named : TRUE]),
              fallback |-> 0]
        ELSE [outcome |-> Return(_fallback_routing(msg)), fallback |-> 1]

\* the code after the awaited call returned text: the outcome and whether
\* _fallback_routing was called.  The print of line 130 is inside the try
\* block: when agent_raw holds a character that stdout cannot encode it
\* raises UnicodeEncodeError, line 135 catches it, the text line 136 prints
\* spells that character as an escape, and line 137 returns the same agent.
OnModelAnswer(msg, text) ==
    LET detected_agent == AgentMapGet(AgentRaw(text))
    IN  IF detected_agent = "None"
        THEN [outcome |-> Return(_fallback_routing(msg)), fallback |-> 1]
        ELSE [outcome |-> Return(detected_agent), fallback |-> 0]

\* The built-in exceptions that derive from BaseException and not from
\* Exception: the cancellation of the task, thrown into the coroutine at its
\* await, the interrupt or exit of the process, the close of a generator, a
\* group that holds one of these, and BaseException itself.  "except
\* Exception" does not catch them.
Interrupts ==
    {"BaseException", "BaseExceptionGroup", "CancelledError", "GeneratorExit",
     "KeyboardInterrupt", "SystemExit"}

\* The awaited call, or reading response.text, raised err.  An exception
\* that is no Exception leaves determine_agent.  The branch "except Exception"
\* (line 135) first prints the text of the exception (line 136), stdout being
\* open: print_err is "None" when that text is printed, and else the
\* exception the print raises inside the handler, which leaves
\* determine_agent: UnicodeEncodeError when the text holds a character that
\* stdout cannot encode (a lone surrogate, for UTF-8), or what the __str__ of
\* the exception raises.  Then line 137 returns what _fallback_routing gives.
OnModelError(msg, err, print_err) ==
    IF err \in Interrupts THEN [outcome |-> Raise(err), fallback |-> 0]
    ELSE IF print_err # "None" THEN [outcome |-> Raise(print_err), fallback |-> 0]
    ELSE [outcome |-> Return(_fallback_routing(msg)), fallback |-> 1]

---------------------------------------------------------------------------
(* json.loads: Python's JSON decoder, on the characters of the model       *)
(*                                                                         *)
(* A decoded value is a record tagged by its Python type.  A dict is the   *)
(* sequence of its items in insertion order.  A float is kept as the text  *)
(* of its literal, and so is an int (Python's ints have no bound), whose   *)
(* literal is canonical once -0 is written 0.  A character outside         *)
(* printable ASCII and whitespace is an atom: U+8 is the backspace, U+e9   *)
(* the e with an acute accent.                                             *)

JNone == [t |-> "NoneType"]

JBool(b) == [t |-> "bool", b |-> b]

JInt(n) == [t |-> "int", n |-> n]

JFloat(lex) == [t |-> "float", lex |-> lex]

JStr(s) == [t |-> "str", s |-> s]

JList(items) == [t |-> "list", items |-> items]

JDict(items) == [t |-> "dict", items |-> items]

\* key in d, for a dict d
DictHas(d, key) == \E i \in 1..Len(d.items) : d.items[i].k = key

\* d[key], for a key of d
DictGet(d, key) ==
    d.items[CHOOSE i \in 1..Len(d.items) : d.items[i].k = key].v

\* d[key] = value: replaces the value of a key already there, else appends
DictSet(d, key, value) ==
    IF DictHas(d, key)
    THEN JDict([i \in 1..Len(d.items) |->
                   IF d.items[i].k = key THEN [k |-> key, v |-> value]
                   ELSE d.items[i]])
    ELSE JDict(Append(d.items, [k |-> key, v |-> value]))

Digits == <<"0", "1", "2", "3", "4", "5", "6", "7", "8", "9">>

IsDigit(c) == \E i \in 1..10 : Digits[i] = c

DigitValue(c) == (CHOOSE i \in 1..10 : Digits[i] = c) - 1

\* the character at index i (from 1), or "" past the end: s[i:i+1]
At(s, i) == IF i >= 1 /\ i <= Len(s) THEN s[i] ELSE ""

\* s[i:i+len(lit)] == lit
LiteralAt(s, i, lit) ==
    /\ i + Len(lit) - 1 <= Len(s)
    /\ \A j \in 1..Len(lit) : s[i + j - 1] = lit[j]

\* the first index from i that does not hold JSON whitespace
SkipWhitespace(s, i) ==
    LET stops == {j \in i..Len(s) : s[j] \notin {" ", "\n", "\t", "\r"}}
    IN  IF stops # {} THEN CHOOSE j \in stops : \A k \in stops : j <= k
        ELSE IF i > Len(s) THEN i ELSE Len(s) + 1

\* the first index from i that does not hold a digit
SkipDigits(s, i) ==
    LET stops == {j \in i..Len(s) : ~IsDigit(s[j])}
    IN  IF stops # {} THEN CHOOSE j \in stops : \A k \in stops : j <= k
        ELSE IF i > Len(s) THEN i ELSE Len(s) + 1

RECURSIVE IntValue(_, _, _, _)
IntValue(s, i, j, acc) ==
    IF i >= j THEN acc ELSE IntValue(s, i + 1, j, 10 * acc + DigitValue(s[i]))

\* a failed scan (JSONDecodeError), and a scan that decoded val and stopped
\* before index end
ScanFail == [ok |-> FALSE, error |-> "JSONDecodeError", val |-> JNone, end |-> 0]

ScanOk(val, end) == [ok |-> TRUE, error |-> "none", val |-> val, end |-> end]

\* the grave accent, which a TLA+ string cannot hold
Tick == "grave"

\* chr(n), as a character of the model: the printable characters of ASCII
\* and the four whitespace characters are themselves, any other code point
\* is the atom U+ followed by its number in hexadecimal
CodePointChar(n) ==
    LET Printable == <<
            " ", "!", "\"", "#", "$", "%", "&", "'", "(", ")", "*",
            "+", ",", "-", ".", "/", "0", "1", "2", "3", "4", "5",
            "6", "7", "8", "9", ":", ";", "<", "=", ">", "?", "@",
            "A", "B", "C", "D", "E", "F", "G", "H", "I", "J", "K",
            "L", "M", "N", "O", "P", "Q", "R", "S", "T", "U", "V",
            "W", "X", "Y", "Z", "[", "\\", "]", "^", "_", Tick,
            "a", "b", "c", "d", "e", "f", "g", "h", "i", "j", "k",
            "l", "m", "n", "o", "p", "q", "r", "s", "t", "u", "v",
            "w", "x", "y", "z", "{", "|", "}", "~" >>
        HexDigits == <<"0", "1", "2", "3", "4", "5", "6", "7", "8", "9",
                       "a", "b", "c", "d", "e", "f">>
        RECURSIVE Hex(_)
        Hex(m) == IF m < 16 THEN HexDigits[m + 1]
                  ELSE Hex(m \div 16) \o HexDigits[(m % 16) + 1]
    IN  IF n >= 32 /\ n <= 126 THEN Printable[n - 31]
        ELSE CASE n = 9 -> "\t"
               [] n = 10 -> "\n"
               [] n = 12 -> "\f"
               [] n = 13 -> "\r"
               [] OTHER -> "U+" \o Hex(n)

\* json.decoder.BACKSLASH: the characters an escape may name, and what they
\* stand for
EscapeFrom == <<"\"", "\\", "/", "b", "f", "n", "r", "t">>

EscapeTo == <<"\"", "\\", "/", "U+8", "\f", "\n", "\r", "\t">>

\* the characters below U+0020, which a string may not hold unescaped
ControlChars == {
    "U+0", "U+1", "U+2", "U+3", "U+4", "U+5", "U+6", "U+7",
    "U+8", "\t", "\n", "U+b", "\f", "\r", "U+e", "U+f",
    "U+10", "U+11", "U+12", "U+13", "U+14", "U+15", "U+16", "U+17",
    "U+18", "U+19", "U+1a", "U+1b", "U+1c", "U+1d", "U+1e", "U+1f" }

\* scanstring, from the index after the opening quote.  A run of characters
\* that are no quote, backslash or control character is taken as it is, up
\* to the next of these.  After \u come four
\* hexadecimal digits; a high surrogate followed by the escape of a low one
\* makes one character with it.
RECURSIVE ScanString(_, _, _)
ScanString(s, i, acc) ==
    LET \* the number the four characters from index j spell, or -1: hits[k]
        \* holds the index of the k-th of them among the hexadecimal digits
        Spell(hits) ==
            LET Value(hit) == LET h == CHOOSE x \in hit : TRUE
                              IN  ((h - 1) % 16) + (IF h > 16 THEN 10 ELSE 0)
            IN  IF \E k \in 1..4 : hits[k] = {} THEN -1
                ELSE 4096 * Value(hits[1]) + 256 * Value(hits[2])
                         + 16 * Value(hits[3]) + Value(hits[4])
        HexIndex(hex, c) == {h \in 1..Len(hex) : hex[h] = c}
        DecodeU(j) ==
            Spell([k \in 1..4 |->
                      HexIndex(<<"0", "1", "2", "3", "4", "5", "6", "7", "8",
                                 "9", "a", "b", "c", "d", "e", "f",
                                 "A", "B", "C", "D", "E", "F">>,
                               At(s, j + k - 1))])
        Continue(code, width) ==
            ScanString(s, i + width, Append(acc, CodePointChar(code)))
        \* units[2] and units[8] are the numbers of the escape at i and of
        \* the one after it; paired: they are a high and a low surrogate
        WithPair(units, paired) ==
            IF units[2] < 0 THEN ScanFail
            ELSE Continue(IF paired
                          THEN 65536 + 1024 * (units[2] - 55296) + (units[8] - 56320)
                          ELSE units[2],
                          IF paired THEN 12 ELSE 6)
        OnUnicode(units) ==
            WithPair(units, /\ units[2] >= 55296 /\ units[2] <= 56319
                            /\ At(s, i + 6) = "\\" /\ At(s, i + 7) = "u"
                            /\ units[8] >= 56320 /\ units[8] <= 57343)
    IN  IF i > Len(s) THEN ScanFail
        ELSE IF s[i] = "\"" THEN ScanOk(JStr(acc), i + 1)
        ELSE IF s[i] = "\\"
        THEN IF At(s, i + 1) = "u"
             THEN OnUnicode([k \in {2, 8} |-> DecodeU(i + k)])
             ELSE IF \E e \in 1..Len(EscapeFrom) : EscapeFrom[e] = At(s, i + 1)
             THEN ScanString(s, i + 2, Append(acc,
                      EscapeTo[CHOOSE e \in 1..Len(EscapeFrom) :
                                   EscapeFrom[e] = s[i + 1]]))
             ELSE ScanFail
        ELSE IF s[i] \in ControlChars THEN ScanFail
        ELSE LET stops == {j \in i..Len(s) :
                              s[j] \in {"\"", "\\"} \cup ControlChars}
             IN  IF stops = {} THEN ScanFail
                 ELSE LET next == CHOOSE j \in stops : \A k \in stops : j <= k
                      IN  ScanString(s, next, acc \o SubSeq(s, i, next - 1))

\* sys.get_int_max_str_digits(): int() of a literal with more digits raises
\* ValueError
IntMaxStrDigits == 4300

\* float() of a literal raises ValueError when it has more digits than this
\* before its exponent, the zeros that lead it not counted, or more after the
\* point
FloatMaxDigits == 1000000000

\* NUMBER_RE.match at i: (-?(?:0|[1-9]\d*))(\.\d+)?([eE][-+]?\d+)?
\* A literal without fraction and exponent is converted by int, which raises
\* ValueError when it has more than IntMaxStrDigits digits; any other is
\* converted by float, which raises ValueError when it has more than
\* FloatMaxDigits digits.
ScanNumber(s, i) ==
    LET d0 == IF At(s, i) = "-" THEN i + 1 ELSE i
        d1 == IF At(s, d0) = "0" THEN d0 + 1 ELSE SkipDigits(s, d0)
        f1 == IF At(s, d1) = "." /\ IsDigit(At(s, d1 + 1))
              THEN SkipDigits(s, d1 + 1) ELSE d1
        x0 == IF At(s, f1 + 1) \in {"+", "-"} THEN f1 + 2 ELSE f1 + 1
        e1 == IF At(s, f1) \in {"e", "E"} /\ IsDigit(At(s, x0))
              THEN SkipDigits(s, x0) ELSE f1
    IN  IF ~IsDigit(At(s, d0)) THEN [ScanFail EXCEPT !.error = "StopIteration"]
        ELSE IF e1 = d1 /\ d1 - d0 > IntMaxStrDigits
        THEN [ScanFail EXCEPT !.error = "ValueError"]
        ELSE IF e1 = d1
        THEN ScanOk(JInt(IF SubSeq(s, i, d1 - 1) = <<"-","0">> THEN <<"0">>
                         ELSE SubSeq(s, i, d1 - 1)), d1)
        ELSE IF (IF At(s, d0) = "0" THEN 0 ELSE d1 - d0)
                    + (IF f1 > d1 THEN f1 - d1 - 1 ELSE 0) > FloatMaxDigits
        THEN [ScanFail EXCEPT !.error = "ValueError"]
        ELSE ScanOk(JFloat(SubSeq(s, i, e1 - 1)), e1)

\* scan_once, JSONObject and JSONArray of json.decoder / json.scanner
\* The recursion limit of the interpreter bounds json.loads.  c_scanner enters
\* a recursive call (Py_EnterRecursiveCall) for every object and array it
\* opens, and room is the number of objects and arrays, one inside the other,
\* it may still open: the recursion limit less the frames in flight at the call
\* of json.loads, less 4.  Where the room does not suffice RecursionError is
\* raised: one level to open an object or an array or to call parse_constant
\* for NaN, Infinity and -Infinity, and three levels for raise_errmsg to
\* build a JSONDecodeError (the call of the class, the frame of its __init__,
\* and the call of doc.count in it).
RaiseErrmsg(r, room) ==
    IF r.ok \/ r.error # "JSONDecodeError" \/ room >= 3 THEN r
    ELSE [ScanFail EXCEPT !.error = "RecursionError"]

RECURSIVE ScanOnce(_, _, _), ScanItems(_, _, _, _), ScanElements(_, _, _, _)

\* the items of an object, from the index after the quote that opens a key
ScanItems(s, i, d, room) ==
    LET \* q: the index after the comma and the whitespace
        AfterComma(d2, q) ==
            IF At(s, q) # "\"" THEN RaiseErrmsg(ScanFail, room)
            ELSE ScanItems(s, q + 1, d2, room)
        \* n: the index after the value and the whitespace
        AfterValue(d2, n) ==
            IF At(s, n) = "}" THEN ScanOk(d2, n + 1)
            ELSE IF At(s, n) # "," THEN RaiseErrmsg(ScanFail, room)
            ELSE AfterComma(d2, SkipWhitespace(s, n + 1))
        WithValue(key, val) ==
            IF ~val.ok THEN val
            ELSE AfterValue(DictSet(d, key.val.s, val.val),
                            SkipWhitespace(s, val.end))
        \* c: the index after the key and the whitespace
        AfterKey(key, c) ==
            IF At(s, c) # ":" THEN RaiseErrmsg(ScanFail, room)
            ELSE WithValue(key, ScanOnce(s, SkipWhitespace(s, c + 1), room))
        WithKey(key) ==
            IF ~key.ok THEN key
            ELSE AfterKey(key, SkipWhitespace(s, key.end))
    IN  WithKey(RaiseErrmsg(ScanString(s, i, <<>>), room))

\* the elements of an array, from the index of an element
ScanElements(s, i, acc, room) ==
    LET val == ScanOnce(s, i, room)
    IN  IF ~val.ok THEN val
        ELSE LET acc2 == Append(acc, val.val)
                 n == SkipWhitespace(s, val.end)
             IN  IF At(s, n) = "]" THEN ScanOk(JList(acc2), n + 1)
                 ELSE IF At(s, n) # "," THEN RaiseErrmsg(ScanFail, room)
                 ELSE ScanElements(s, SkipWhitespace(s, n + 1), acc2, room)

\* scan_once_unicode: where no value starts it raises StopIteration, which
\* raw_decode turns into JSONDecodeError once the scanner has returned
ScanOnce(s, i, room) ==
    LET c == At(s, i)
    IN  IF c = "\"" THEN RaiseErrmsg(ScanString(s, i + 1, <<>>), room)
        ELSE IF c \in {"{", "["} /\ room = 0
        THEN [ScanFail EXCEPT !.error = "RecursionError"]
        ELSE IF c = "{"
        THEN LET q == SkipWhitespace(s, i + 1)
             IN  IF At(s, q) = "}" THEN ScanOk(JDict(<<>>), q + 1)
                 ELSE IF At(s, q) # "\"" THEN RaiseErrmsg(ScanFail, room - 1)
                 ELSE ScanItems(s, q + 1, JDict(<<>>), room - 1)
        ELSE IF c = "["
        THEN LET q == SkipWhitespace(s, i + 1)
             IN  IF At(s, q) = "]" THEN ScanOk(JList(<<>>), q + 1)
                 ELSE ScanElements(s, q, <<>>, room - 1)
        ELSE IF LiteralAt(s, i, <<"n","u","l","l">>) THEN ScanOk(JNone, i + 4)
        ELSE IF LiteralAt(s, i, <<"t","r","u","e">>) THEN ScanOk(JBool(TRUE), i + 4)
        ELSE IF LiteralAt(s, i, <<"f","a","l","s","e">>) THEN ScanOk(JBool(FALSE), i + 5)
        ELSE IF IsDigit(At(s, IF c = "-" THEN i + 1 ELSE i)) THEN ScanNumber(s, i)
        ELSE IF /\ room = 0
                /\ \/ LiteralAt(s, i, <<"N","a","N">>)
                   \/ LiteralAt(s, i, <<"I","n","f","i","n","i","t","y">>)
                   \/ LiteralAt(s, i, <<"-","I","n","f","i","n","i","t","y">>)
        THEN [ScanFail EXCEPT !.error = "RecursionError"]
        ELSE IF LiteralAt(s, i, <<"N","a","N">>) THEN ScanOk(JFloat(<<"N","a","N">>), i + 3)
        ELSE IF LiteralAt(s, i, <<"I","n","f","i","n","i","t","y">>) THEN ScanOk(JFloat(<<"I","n","f","i","n","i","t","y">>), i + 8)
        ELSE IF LiteralAt(s, i, <<"-","I","n","f","i","n","i","t","y">>) THEN ScanOk(JFloat(<<"-","I","n","f","i","n","i","t","y">>), i + 9)
        ELSE [ScanFail EXCEPT !.error = "StopIteration"]

\* json.loads(s) with room to open that many objects and arrays one inside the
\* other: the decoded value, or not ok with the error raised, JSONDecodeError,
\* RecursionError or ValueError.  The JSONDecodeError that raw_decode builds for
\* StopIteration needs two levels of room.  Text left after the value, other
\* than whitespace, is a JSONDecodeError built in decode, which needs one.
JsonLoads(s, room) ==
    LET Whole(r) ==
            IF ~r.ok
            THEN [ok |-> FALSE, val |-> JNone,
                  error |-> IF r.error = "StopIteration" /\ room >= 2
                            THEN "JSONDecodeError"
                            ELSE IF r.error = "StopIteration" THEN "RecursionError"
                            ELSE r.error]
            ELSE IF SkipWhitespace(s, r.end) = Len(s) + 1
            THEN [ok |-> TRUE, val |-> r.val, error |-> "none"]
            ELSE [ok |-> FALSE, val |-> JNone,
                  error |-> IF room >= 1 THEN "JSONDecodeError"
                            ELSE "RecursionError"]
    IN  Whole(ScanOnce(s, SkipWhitespace(s, 1), room))

---------------------------------------------------------------------------
(* The structured operations of the agents: app/agents/sola.py,            *)
(* app/agents/tolu.py, app/agents/kemi.py                                  *)

Fence == <<Tick, Tick, Tick>>

FenceJson == <<Tick,Tick,Tick,"j","s","o","n">>

StartsWith(s, p) == LiteralAt(s, 1, p)

EndsWith(s, p) == Len(p) <= Len(s) /\ LiteralAt(s, Len(s) - Len(p) + 1, p)

\* s[n:]
DropFirst(s, n) == SubSeq(s, n + 1, Len(s))

\* s[:-n]
DropLast(s, n) == SubSeq(s, 1, Len(s) - n)

\* sola.py lines 89-97: with an opening fence and more than one line, drop the
\* first line, then a closing fence at the very end
SolaStripFence(text) ==
    LET newlines == {i \in 1..Len(text) : text[i] = "\n"}
    IN  IF StartsWith(text, Fence) /\ newlines # {}
        THEN LET first == CHOOSE i \in newlines : \A j \in newlines : i <= j
                 rest == DropFirst(text, first)
             IN  IF EndsWith(rest, Fence) THEN DropLast(rest, 3) ELSE rest
        ELSE text

\* The regular expression \{[^{}]*(?:\{[^{}]*\}[^{}]*)*\} from index i, which
\* follows an opening brace: the index of the brace that ends the match, or 0.
\* [^{}]* runs up to the next brace.  Inside the outer braces (depth 1) a
\* group may open (depth 2); inside a group no brace may open.
RECURSIVE BraceMatchEnd(_, _, _)
BraceMatchEnd(s, i, depth) ==
    LET braces == {j \in i..Len(s) : s[j] \in {"{", "}"}}
        next == CHOOSE j \in braces : \A k \in braces : j <= k
    IN  IF braces = {} THEN 0
        ELSE IF s[next] = "{"
        THEN IF depth = 1 THEN BraceMatchEnd(s, next + 1, 2) ELSE 0
        ELSE IF depth = 2 THEN BraceMatchEnd(s, next + 1, 1) ELSE next

\* re.search of that expression: the leftmost match, as json_match.group(0)
RegexSearch(text) ==
    LET starts == {i \in 1..Len(text) :
                      text[i] = "{" /\ BraceMatchEnd(text, i + 1, 1) # 0}
    IN  IF starts = {} THEN [found |-> FALSE, str |-> <<>>]
        ELSE LET i == CHOOSE i \in starts : \A j \in starts : i <= j
             IN  [found |-> TRUE,
                  str |-> SubSeq(text, i, BraceMatchEnd(text, i + 1, 1))]

\* sola.py lines 125-130: the review returned when no review was decoded
ReviewDefault(response_text) ==
    JDict(<< [k |-> <<"f","e","e","d","b","a","c","k">>, v |-> JStr(response_text)],
             [k |-> <<"p","a","s","s","e","d">>, v |-> JBool(FALSE)],
             [k |-> <<"s","c","o","r","e">>, v |-> JInt(<<"0">>)],
             [k |-> <<"i","m","p","r","o","v","e","m","e","n","t","_","p","o","i","n","t","s">>, v |-> JList(<<
                 JStr(<<"P","l","e","a","s","e"," ","e","n","s","u","r","e"," ","s","u","b","m","i","s","s","i","o","n"," ","i","s"," ","c","l","e","a","r"," ","a","n","d"," ","c","o","m","p","l","e","t","e">>),
                 JStr(<<"R","e","s","u","b","m","i","t"," ","f","o","r"," ","r","e","v","i","e","w">>) >>)] >>)

\* isinstance(result, dict) and "feedback" in result and "passed" in result
ValidReview(value) ==
    /\ value.t = "dict"
    /\ DictHas(value, <<"f","e","e","d","b","a","c","k">>)
    /\ DictHas(value, <<"p","a","s","s","e","d">>)

\* mutant: a review without a score is given the score 0
EnsureScore_Zero(value) ==
    IF DictHas(value, <<"s","c","o","r","e">>) THEN value ELSE DictSet(value, <<"s","c","o","r","e">>, JInt(<<"0">>))

\* if "score" not in result: result["score"] = 50
EnsureScore(value) ==
    IF DictHas(value, <<"s","c","o","r","e">>) THEN value ELSE DictSet(value, <<"s","c","o","r","e">>, JInt(<<"5","0">>))

\* re.search compiles the expression of line 101 unless the cache of re
\* holds it (the first call of a process, or after the cache was emptied),
\* and the compiler needs this much room or raises RecursionError
CompileRoom == 7

\* sola.review_submission from the text of the response (lines 86-130).  A
\* candidate found by the regular expression that fails to decode raises
\* JSONDecodeError inside the try block, so the whole text is then not tried.
\* Line 121 catches JSONDecodeError, AttributeError and IndexError: a
\* RecursionError of re.search or json.loads and a ValueError of json.loads
\* leave the call.  compiled: the cache of re holds the expression.
SolaReviewSubmission(response_text, room, compiled) ==
    LET text == SolaStripFence(Strip(response_text))
        json_match == RegexSearch(text)
        candidate == JsonLoads(json_match.str, room)
        whole == JsonLoads(text, room)
        Caught(error) == IF error = "JSONDecodeError"
                         THEN Return(ReviewDefault(response_text))
                         ELSE Raise(error)
    IN  IF ~compiled /\ room < CompileRoom THEN Raise("RecursionError")
        ELSE IF json_match.found /\ ~candidate.ok THEN Caught(candidate.error)
        ELSE IF json_match.found /\ ValidReview(candidate.val)
        THEN Return(EnsureScore(candidate.val))
        ELSE IF ~whole.ok THEN Caught(whole.error)
        ELSE IF ValidReview(whole.val) THEN Return(EnsureScore(whole.val))
        ELSE Return(ReviewDefault(response_text))

\* tolu.py lines 78-83 and kemi.py lines 56-61
StripFences(text) ==
    LET t1 == IF StartsWith(text, FenceJson) THEN DropFirst(text, 7) ELSE text
        t2 == IF StartsWith(t1, Fence) THEN DropFirst(t1, 3) ELSE t1
    IN  IF EndsWith(t2, Fence) THEN DropLast(t2, 3) ELSE t2

\* tolu.py lines 94-99
AssessDefault(response_text) ==
    JDict(<< [k |-> <<"r","e","s","p","o","n","s","e","_","t","e","x","t">>, v |-> JStr(response_text)],
             [k |-> <<"a","s","s","e","s","s","e","d","_","l","e","v","e","l">>, v |-> JStr(<<"L","e","v","e","l"," ","1">>)],
             [k |-> <<"r","e","a","s","o","n","i","n","g">>, v |-> JStr(
                 <<"U","n","a","b","l","e"," ","t","o"," ","r","e","l","i","a","b","l","y"," ","p","a","r","s","e"," ","a","s","s","e","s","s","m","e","n","t",";"," ","d","e","f","a","u","l","t","i","n","g"," ","t","o"," ","L","e","v","e","l"," ","1",".">>)],
             [k |-> <<"w","a","r","m","u","p","_","m","o","d","e">>, v |-> JBool(FALSE)] >>)

\* tolu.assess_bio from the text of the response (lines 74-99): result.get
\* raises AttributeError when the decoded value is not a dict, and only
\* JSONDecodeError is caught, so a RecursionError or ValueError of json.loads
\* leaves the call
ToluAssessBio(response_text, room) ==
    LET r == JsonLoads(Strip(StripFences(Strip(response_text))), room)
    IN  IF ~r.ok /\ r.error # "JSONDecodeError" THEN Raise(r.error)
        ELSE IF ~r.ok THEN Return(AssessDefault(response_text))
        ELSE IF r.val.t # "dict" THEN Raise("AttributeError")
        ELSE Return(DictSet(r.val, <<"w","a","r","m","u","p","_","m","o","d","e">>,
                 JBool(/\ DictHas(r.val, <<"a","s","s","e","s","s","e","d","_","l","e","v","e","l">>)
                       /\ DictGet(r.val, <<"a","s","s","e","s","s","e","d","_","l","e","v","e","l">>) = JStr(<<"L","e","v","e","l"," ","0">>))))

\* kemi.py lines 65-68
BulletDefault(title) ==
    JDict(<< [k |-> <<"s","k","i","l","l","_","t","a","g">>, v |-> JStr(<<"G","e","n","e","r","a","l">>)],
             [k |-> <<"b","u","l","l","e","t","_","p","o","i","n","t">>, v |-> JStr(<<"S","u","c","c","e","s","s","f","u","l","l","y"," ","c","o","m","p","l","e","t","e","d",":"," ">> \o title)] >>)

\* kemi.translate_to_cv_bullet from the text of the response (lines 54-68):
\* whatever json.loads gives is returned; only JSONDecodeError is caught, so a
\* RecursionError or ValueError of json.loads leaves the call
KemiTranslateToCvBullet(response_text, title, room) ==
    LET r == JsonLoads(Strip(StripFences(Strip(response_text))), room)
    IN  IF ~r.ok /\ r.error # "JSONDecodeError" THEN Raise(r.error)
        ELSE IF ~r.ok THEN Return(BulletDefault(title)) ELSE Return(r.val)

StructuredOps ==
    {"sola.review_submission", "tolu.assess_bio", "kemi.translate_to_cv_bullet"}

\* the operation's code after the awaited call returned a response with this text
OnStructuredAnswer(operation, response_text, title, room, compiled) ==
    CASE operation = "sola.review_submission" ->
             SolaReviewSubmission(response_text, room, compiled)
      [] operation = "tolu.assess_bio" -> ToluAssessBio(response_text, room)
      [] operation = "kemi.translate_to_cv_bullet" ->
             KemiTranslateToCvBullet(response_text, title, room)

\* The awaited call itself raised err.  In tolu and kemi the call is outside
\* the try block.  In sola it is inside (line 85): JSONDecodeError,
\* AttributeError and IndexError are caught (line 121), and the fallback then
\* reads the local response, which was never bound.
OnStructuredError(operation, err) ==
    IF /\ operation = "sola.review_submission"
       /\ err \in {"JSONDecodeError", "AttributeError", "IndexError"}
    THEN Raise("UnboundLocalError")
    ELSE Raise(err)

\* The awaited call returned something without a text: None when text_err is
\* "None", otherwise an object whose text attribute raises text_err.
\* sola: None has no text (AttributeError, caught) and is falsy in the
\* fallback of line 125; an object is truthy there, so its text is read again
\* and raises again.  tolu and kemi catch JSONDecodeError only; the fallback
\* of tolu reads the text again, the fallback of kemi does not.
OnStructuredNoText(operation, text_err, title) ==
    CASE operation = "sola.review_submission" ->
             IF text_err = "None"
             THEN Return(ReviewDefault(
                 <<"U","n","a","b","l","e"," ","t","o"," ","g","e","n","e","r","a","t","e"," ","r","e","v","i","e","w","."," ","P","l","e","a","s","e"," ","r","e","s","u","b","m","i","t"," ","w","i","t","h"," ","c","l","e","a","r","e","r"," ","c","o","n","t","e","n","t",".">>))
             ELSE Raise(text_err)
      [] operation = "tolu.assess_bio" ->
             IF text_err = "None" THEN Raise("AttributeError") ELSE Raise(text_err)
      [] operation = "kemi.translate_to_cv_bullet" ->
             IF text_err = "None" THEN Raise("AttributeError")
             ELSE IF text_err = "JSONDecodeError" THEN Return(BulletDefault(title))
             ELSE Raise(text_err)

---------------------------------------------------------------------------
(* Inputs                                                                  *)

\* messages are built from at most MaxFragments of these pieces, plus the
\* sample messages of the specification
MaxFragments == 2

Fragments == <<
    <<"R","e","f","e","r","e","n","c","e"," ">>, <<"L","E","T","T","E","R">>, <<"r","e","f","e","r","e","e">>, <<"w","o","r","r","i","e","d"," ">>, <<"C","V"," ">>,
    <<"D","e","b","u","g"," ">>, <<"d","e","a","d","l","i","n","e"," ">>, <<"s","a","l","a","r","y">>, <<"o","k">>, <<"s","c","a","r","e","d"," ">> >>

RECURSIVE Concat(_)
Concat(parts) ==
    IF parts = <<>> THEN <<>> ELSE Head(parts) \o Concat(Tail(parts))

SampleMessages == {
    <<"I"," ","n","e","e","d"," ","a"," ","r","e","c","o","m","m","e","n","d","a","t","i","o","n"," ","l","e","t","t","e","r"," ","f","o","r"," ","m","y"," ","1","2"," ","w","e","e","k","s">>,
    <<"I","'","m"," ","r","e","a","l","l","y"," ","w","o","r","r","i","e","d"," ","a","b","o","u","t"," ","m","y"," ","c","v"," ","a","n","d"," ","t","h","e"," ","u","p","c","o","m","i","n","g"," ","i","n","t","e","r","v","i","e","w">>,
    <<"2","4"," ","W","e","e","k","s"," ","R","e","c","o","m","m","e","n","d","a","t","i","o","n">> }

Messages ==
    UNION {{Concat([i \in 1..n |-> Fragments[pick[i]]]) :
               pick \in [1..n -> 1..Len(Fragments)]} : n \in 0..MaxFragments}
    \cup SampleMessages

Contexts == [is_submission : BOOLEAN, is_first_login : BOOLEAN]

\* what the model may answer to the routing prompt
AnswerTexts == {
    <<"S","o","l","a">>, <<" "," ","k","E","M","I"," ","\n">>, <<"t","o","l","u">>, <<"E","M","E","M">>, <<"\t","s","O","L","A"," ">>,
    <<>>, <<" ","\n">>, <<"S","o","l","a",".">>, <<"I"," ","t","h","i","n","k"," ","K","e","m","i">>, <<"R","e","c","o","m","m","e","n","d","e","r">>,
    <<"s","o","l","a"," ","k","e","m","i">>, <<"T","o","l"," ","u">> }

\* what the awaited model call may raise; where the text of the response is
\* read in the try block of the call (determine_agent, classify_intent), also
\* what reading it may raise
ModelErrors == {"TimeoutError", "ConnectionError", "AttributeError", "ValueError",
                "IndexError", "JSONDecodeError"}

\* The room json.loads may have when an operation calls it: the recursion
\* limit less the frames in flight at the call, less 4.  994 is the room of a
\* call one frame deep under the limit of 1000; 4 is the room of a call from
\* that much deeper a stack, where the fifth of five nested arrays no longer
\* opens.
RecursionRooms == {4, 994}

\* The texts a model may answer to a structured prompt: an opening, a body and
\* a closing.  A body is a JSON object of at most MaxFields of the fields below,
\* in this order, or one of the other bodies.
MaxFields == 3

Fields == <<
    <<"\"","f","e","e","d","b","a","c","k","\"",":"," ","\"","G","o","o","d","\"">>,
    <<"\"","p","a","s","s","e","d","\"",":"," ","t","r","u","e">>,
    <<"\"","s","c","o","r","e","\"",":"," ","8","5">>,
    <<"\"","f","e","e","d","b","a","c","k","\"",":"," ","\"","M","i","s","s","i","n","g"," ","}"," ","h","e","r","e","\"">>,
    <<"\"","p","a","s","s","e","d","\"",":"," ","f","a","l","s","e">>,
    <<"\"","m","e","t","a","\"",":"," ","{","\"","a","\"",":"," ","{","\"","b","\"",":"," ","1","}","}">>,
    <<"\"","a","s","s","e","s","s","e","d","_","l","e","v","e","l","\"",":"," ","\"","L","e","v","e","l"," ","0","\"">> >>

\* the chosen fields from index i on, separated by commas
RECURSIVE JoinFields(_, _, _)
JoinFields(chosen, i, first) ==
    IF i > Len(Fields) THEN <<>>
    ELSE IF i \in chosen
    THEN (IF first THEN <<>> ELSE <<","," ">>) \o Fields[i] \o JoinFields(chosen, i + 1, FALSE)
    ELSE JoinFields(chosen, i + 1, first)

OtherBodies == {
    <<"S","o","r","r","y",","," ","I"," ","c","a","n","'","t"," ","p","r","o","c","e","s","s"," ","t","h","i","s",".">>,
    <<"[","1","]">>,
    <<"8","5">>,
    <<"\"","o","k","\"">>,
    <<"{","\"","f","e","e","d","b","a","c","k","\"",":"," ","\"","x","\"",","," ","\"","p","a","s">>,
    <<"[","{","\"","f","e","e","d","b","a","c","k","\"",":"," ","\"","G","o","o","d","\"",","," ","\"","p","a","s","s","e","d","\"",":"," ","t","r","u","e","}","]">>,
    <<"{","\"","f","e","e","d","b","a","c","k","\"",":"," ","\"","i","t","\\","u","0","0","2","7","s"," ","a","\\","b","c","\"",","," ","\"","p","a","s","s","e","d","\"",":"," ","1","e","-","4","0","0","}">>,
    <<"{","\"","a","s","s","e","s","s","e","d","_","l","e","v","e","l","\"",":"," ","\"","L","e","v","e","l","\\","u","0","0","2","0","0","\"","}">>,
    <<"[","[","[","[","[","1","]","]","]","]","]">>,
    <<"{","\"","f","e","e","d","b","a","c","k","\"",":"," ","\"","G","o","o","d","\"",","," ","\"","p","a","s","s","e","d","\"",":"," ","t","r","u","e",","," ","\"","n","o","t","e","s","\"",":"," ","[","[","[","[","1","]","]","]","]","}">>,
    <<>> }

ResponseTexts ==
    LET Openings ==
            { <<>>, <<Tick,Tick,Tick,"j","s","o","n","\n">>, <<Tick,Tick,Tick,"\n">>, <<"H","e","r","e"," ","i","s"," ","m","y"," ","r","e","v","i","e","w",":"," ">>, <<"A","s"," ","{","a","s","k","e","d","}",":"," ">> }
        Closings == { <<>>, <<"\n",Tick,Tick,Tick>>, <<" ","T","h","a","n","k","s","!">> }
        ObjectBodies ==
            {<<"{">> \o JoinFields(chosen, 1, TRUE) \o <<"}">> :
                chosen \in {c \in SUBSET (1..Len(Fields)) : Cardinality(c) <= MaxFields}}
    IN  {o \o b \o c : o \in Openings, b \in ObjectBodies \cup OtherBodies, c \in Closings}

TaskTitles == { <<"S","Q","L"," ","r","e","p","o","r","t">>, <<"L","a","n","d","i","n","g"," ","p","a","g","e">> }

---------------------------------------------------------------------------
(* Orchestrator.determine_agent as a state machine: one step up to the      *)
(* awaited model call, one step from its completion to the return          *)

Init ==
    /\ op = "determine_agent"
    /\ pc = "start"
    /\ task_title = <<>>
    /\ message \in Messages
    /\ context \in Contexts
    /\ response = NoResult
    /\ result = NoResult
    /\ model_calls = 0
    /\ fallback_calls = 0
    /\ agent = NoResult
    /\ earlier = NoResult
    /\ review = NoResult
    /\ chat_history = <<>>
    /\ prompt = <<>>

\* mutant: with no rule fired the keyword heuristic decides at once
DetermineAgentRules_NoClassifier ==
    /\ op = "determine_agent"
    /\ pc = "start"
    /\ LET msg == Lower(message)
           hard == HardRules(msg, context)
       IN  IF hard.kind = "none"
           THEN /\ result' = Return(_fallback_routing(msg))
                /\ fallback_calls' = fallback_calls + 1
           ELSE /\ result' = hard
                /\ UNCHANGED fallback_calls
    /\ pc' = "done"
    /\ UNCHANGED <<op, task_title, message, context, response, model_calls>>
    /\ UNCHANGED <<agent, earlier, review, chat_history, prompt>>

\* mutant: the hard rules are applied to the message as typed
DetermineAgentRules_CaseSensitive ==
    /\ op = "determine_agent"
    /\ pc = "start"
    /\ LET hard == HardRules(message, context)
       IN  IF hard.kind = "none"
           THEN /\ pc' = "await_model"
                /\ model_calls' = model_calls + 1
                /\ UNCHANGED result
           ELSE /\ pc' = "done"
                /\ result' = hard
                /\ UNCHANGED model_calls
    /\ UNCHANGED <<op, task_title, message, context, response, fallback_calls>>
    /\ UNCHANGED <<agent, earlier, review, chat_history, prompt>>

\* lines 78-116: lower the message, apply the hard rules, else issue the call
DetermineAgentRules ==
    /\ op = "determine_agent"
    /\ pc = "start"
    /\ LET msg == Lower(message)
           hard == HardRules(msg, context)
       IN  IF hard.kind = "none"
           THEN /\ pc' = "await_model"
                /\ model_calls' = model_calls + 1
                /\ UNCHANGED result
           ELSE /\ pc' = "done"
                /\ result' = hard
                /\ UNCHANGED model_calls
    /\ UNCHANGED <<op, task_title, message, context, response, fallback_calls>>
    /\ UNCHANGED <<agent, earlier, review, chat_history, prompt>>

\* lines 116-133: the call returned a response whose text is text
ModelReturns(text) ==
    /\ op = "determine_agent"
    /\ pc = "await_model"
    /\ LET r == OnModelAnswer(Lower(message), text)
       IN  /\ result' = r.outcome
           /\ fallback_calls' = fallback_calls + r.fallback
    /\ response' = Return(text)
    /\ pc' = "done"
    /\ UNCHANGED <<op, task_title, message, context, model_calls>>
    /\ UNCHANGED <<agent, earlier, review, chat_history, prompt>>

\* mutant: a failed call is issued again
ModelRaises_Retry(err, print_err) ==
    /\ op = "determine_agent"
    /\ pc = "await_model"
    /\ response' = Raise(err)
    /\ model_calls' = model_calls + 1
    /\ UNCHANGED <<op, pc, task_title, message, context, result, fallback_calls>>
    /\ UNCHANGED <<agent, earlier, review, chat_history, prompt>>

\* lines 135-137: the call raised err, and the print of its text raises
\* print_err or nothing
ModelRaises(err, print_err) ==
    /\ op = "determine_agent"
    /\ pc = "await_model"
    /\ LET r == OnModelError(Lower(message), err, print_err)
       IN  /\ result' = r.outcome
           /\ fallback_calls' = fallback_calls + r.fallback
    /\ response' = Raise(err)
    /\ pc' = "done"
    /\ UNCHANGED <<op, task_title, message, context, model_calls>>
    /\ UNCHANGED <<agent, earlier, review, chat_history, prompt>>

Next ==
    \/ DetermineAgentRules
    \/ \E text \in AnswerTexts : ModelReturns(text)
    \/ \E err \in ModelErrors \cup Interrupts,
          print_err \in {"None", "UnicodeEncodeError"} : ModelRaises(err, print_err)

Spec == Init /\ [][Next]_vars

---------------------------------------------------------------------------
(* The structured operations as a state machine: one step up to the awaited *)
(* model call, one step from its completion to the return                  *)

InitStructured ==
    /\ op \in StructuredOps
    /\ pc = "start"
    /\ task_title \in TaskTitles
    /\ message = <<>>
    /\ context = [is_submission |-> FALSE, is_first_login |-> FALSE]
    /\ response = NoResult
    /\ result = NoResult
    /\ model_calls = 0
    /\ fallback_calls = 0
    /\ agent = NoResult
    /\ earlier = NoResult
    /\ review = NoResult
    /\ chat_history = <<>>
    /\ prompt = <<>>

\* sola.py lines 51-85, tolu.py lines 27-72, kemi.py lines 28-52: build the
\* prompt and issue the call
StructuredCall ==
    /\ op \in StructuredOps
    /\ pc = "start"
    /\ pc' = "await_model"
    /\ model_calls' = model_calls + 1
    /\ UNCHANGED <<op, task_title, message, context, response, result, fallback_calls>>
    /\ UNCHANGED <<agent, earlier, review, chat_history, prompt>>

\* the call returned a response whose text is text, and json.loads is called
\* with this room, the cache of re holding the expression of sola or not
StructuredModelReturns(text, room, compiled) ==
    /\ op \in StructuredOps
    /\ pc = "await_model"
    /\ result' = OnStructuredAnswer(op, text, task_title, room, compiled)
    /\ response' = Return(text)
    /\ pc' = "done"
    /\ UNCHANGED <<op, task_title, message, context, model_calls, fallback_calls>>
    /\ UNCHANGED <<agent, earlier, review, chat_history, prompt>>

\* the call raised
StructuredModelRaises(err) ==
    /\ op \in StructuredOps
    /\ pc = "await_model"
    /\ result' = OnStructuredError(op, err)
    /\ response' = Raise(err)
    /\ pc' = "done"
    /\ UNCHANGED <<op, task_title, message, context, model_calls, fallback_calls>>
    /\ UNCHANGED <<agent, earlier, review, chat_history, prompt>>

\* the call returned None or a response whose text cannot be read
StructuredModelReturnsNoText(text_err) ==
    /\ op \in StructuredOps
    /\ pc = "await_model"
    /\ result' = OnStructuredNoText(op, text_err, task_title)
    /\ response' = [kind |-> "no_text", value |-> text_err]
    /\ pc' = "done"
    /\ UNCHANGED <<op, task_title, message, context, model_calls, fallback_calls>>
    /\ UNCHANGED <<agent, earlier, review, chat_history, prompt>>

NextStructured ==
    \/ StructuredCall
    \/ \E text \in ResponseTexts, room \in RecursionRooms, compiled \in BOOLEAN :
           StructuredModelReturns(text, room, compiled)
    \/ \E err \in ModelErrors \cup Interrupts : StructuredModelRaises(err)
    \/ \E text_err \in ModelErrors \cup Interrupts \cup {"None"} :
           StructuredModelReturnsNoText(text_err)

SpecStructured == InitStructured /\ [][NextStructured]_vars

---------------------------------------------------------------------------
(* Orchestrator.route_message and the /chat endpoint that calls it         *)

\* the fields of the class ChatContext
ChatContextFields ==
    {"task_id", "is_submission", "is_first_login", "user_level", "track",
     "task_brief", "deadline"}

\* context.name: the value of a field, None for a field the request left
\* out, AttributeError for a name that is no field of ChatContext
ContextAttr(ctx, name) ==
    IF name \notin ChatContextFields THEN Raise("AttributeError")
    ELSE IF name \in DOMAIN ctx THEN Return(ctx[name])
    ELSE Return("None")

\* the keys of the dict ctx, each read from the attribute of the same name,
\* in the order of the dict display
CtxKeys ==
    <<"user_level", "track", "task_brief", "deadline", "task_id", "cv_text",
      "bio_summary">>

\* the dict ctx, or the exception of the first attribute read that raises
BuildCtx(ctx) ==
    LET raising == {i \in 1..Len(CtxKeys) :
                       ContextAttr(ctx, CtxKeys[i]).kind = "raise"}
    IN  IF raising # {}
        THEN ContextAttr(ctx, CtxKeys[CHOOSE i \in raising :
                                          \A j \in raising : i <= j])
        ELSE Return([i \in 1..Len(CtxKeys) |->
                        [k |-> CtxKeys[i],
                         v |-> ContextAttr(ctx, CtxKeys[i]).value]])

\* mutant: the chain has no branch for AgentName.KEMI
Generator_NoKemi(a) ==
    CASE a = "Tolu" -> Return("tolu.respond_to_message")
      [] a = "Emem" -> Return("emem.respond_to_message")
      [] a = "Sola" -> Return("sola.respond_to_message")
      [] OTHER -> AgentNameAttr("RECOMMENDER")

\* the if/elif chain: the generation function of each member of AgentName;
\* any other value reaches the test against AgentName.RECOMMENDER
Generator(a) ==
    CASE a = "Tolu" -> Return("tolu.respond_to_message")
      [] a = "Emem" -> Return("emem.respond_to_message")
      [] a = "Sola" -> Return("sola.respond_to_message")
      [] a = "Kemi" -> Return("kemi.respond_to_message")
      [] OTHER -> AgentNameAttr("RECOMMENDER")

\* ChatResponse(agent=agent, message=text, metadata={"context": ctx})
ChatResponse(a, text, ctx) ==
    [agent |-> a, message |-> text, metadata |-> [context |-> ctx]]

\* the code from the return of determine_agent up to the awaited generation
\* call: an exception of determine_agent or of the dict display leaves
\* route_message
RouteAfterAgent(outcome, ctx) ==
    IF outcome.kind = "raise" THEN [pc |-> "done", result |-> outcome]
    ELSE IF BuildCtx(ctx).kind = "raise"
    THEN [pc |-> "done", result |-> BuildCtx(ctx)]
    ELSE IF Generator(outcome.value).kind = "raise"
    THEN [pc |-> "done", result |-> Generator(outcome.value)]
    ELSE [pc |-> "await_generation", result |-> NoResult]

\* the endpoint (main.py lines 83-94): the envelope; an HTTPException of
\* route_message as it is; HTTP 500 with the text of any other Exception; an
\* exception that is no Exception leaves the handler as it is
chat(outcome) ==
    IF outcome.kind # "raise" THEN outcome
    ELSE IF outcome.value = "HTTPException" \/ outcome.value \in Interrupts
    THEN outcome
    ELSE [kind |-> "raise", value |-> "HTTPException", status_code |-> 500,
          detail |-> outcome.value]

InitRoute ==
    /\ op = "route_message"
    /\ pc = "start"
    /\ task_title = <<>>
    /\ message \in Messages
    /\ context \in Contexts
    /\ response = NoResult
    /\ result = NoResult
    /\ model_calls = 0
    /\ fallback_calls = 0
    /\ agent = NoResult
    /\ earlier = NoResult
    /\ review = NoResult
    /\ chat_history = <<>>
    /\ prompt = <<>>

\* lines 189-190: determine_agent up to its model call or, when a hard rule
\* decides, on to the dict display; when the rule raises, the local agent is
\* not bound
RouteStart ==
    /\ op = "route_message"
    /\ pc = "start"
    /\ LET hard == HardRules(Lower(message), context)
           after == RouteAfterAgent(hard, context)
       IN  IF hard.kind = "none"
           THEN /\ pc' = "await_model"
                /\ model_calls' = model_calls + 1
                /\ UNCHANGED <<agent, result>>
           ELSE /\ agent' = IF hard.kind = "return" THEN hard ELSE agent
                /\ pc' = after.pc
                /\ result' = after.result
                /\ UNCHANGED model_calls
    /\ UNCHANGED <<op, task_title, message, context, response, fallback_calls,
                   earlier, review, chat_history, prompt>>

\* the classifier's call returned text: determine_agent returns, lines 192-200
RouteClassifierReturns(text) ==
    /\ op = "route_message"
    /\ pc = "await_model"
    /\ LET r == OnModelAnswer(Lower(message), text)
           after == RouteAfterAgent(r.outcome, context)
       IN  /\ agent' = r.outcome
           /\ fallback_calls' = fallback_calls + r.fallback
           /\ pc' = after.pc
           /\ result' = after.result
    /\ response' = Return(text)
    /\ UNCHANGED <<op, task_title, message, context, model_calls, earlier, review, chat_history, prompt>>

\* the classifier's call raised: determine_agent returns, lines 192-200, or
\* raises, and the local agent is then not bound
RouteClassifierRaises(err, print_err) ==
    /\ op = "route_message"
    /\ pc = "await_model"
    /\ LET r == OnModelError(Lower(message), err, print_err)
           after == RouteAfterAgent(r.outcome, context)
       IN  /\ agent' = IF r.outcome.kind = "return" THEN r.outcome ELSE agent
           /\ fallback_calls' = fallback_calls + r.fallback
           /\ pc' = after.pc
           /\ result' = after.result
    /\ response' = Raise(err)
    /\ UNCHANGED <<op, task_title, message, context, model_calls, earlier, review, chat_history, prompt>>

NextRoute ==
    \/ RouteStart
    \/ \E text \in AnswerTexts : RouteClassifierReturns(text)
    \/ \E err \in ModelErrors \cup Interrupts,
          print_err \in {"None", "UnicodeEncodeError"} :
           RouteClassifierRaises(err, print_err)

SpecRoute == InitRoute /\ [][NextRoute]_vars

---------------------------------------------------------------------------
(* intent_classifier.classify_intent                                       *)

\* the keys of the dict INTENTS
INTENTS ==
    << <<"h","r","_","o","n","b","o","a","r","d","i","n","g">>, <<"p","r","o","j","e","c","t","_","m","a","n","a","g","e","r">>, <<"s","u","p","e","r","v","i","s","o","r">>,
       <<"c","a","r","e","e","r","_","s","t","r","a","t","e","g","i","s","t">> >>

\* lines 54-65, the call having returned a response whose text is text; only
\* JSONDecodeError is caught, so a RecursionError or ValueError of json.loads
\* leaves the call
OnIntentAnswer(text, room) ==
    LET raw == Strip(text)
        parsed == JsonLoads(raw, room)
        data == parsed.val
        intent == IF DictHas(data, <<"i","n","t","e","n","t">>)
                  THEN DictGet(data, <<"i","n","t","e","n","t">>) ELSE JNone
    IN  IF ~parsed.ok /\ parsed.error # "JSONDecodeError" THEN Raise(parsed.error)
        ELSE IF ~parsed.ok THEN Return(<<"h","r","_","o","n","b","o","a","r","d","i","n","g">>)
        ELSE IF data.t # "dict" THEN Raise("AttributeError")
        ELSE IF intent.t \in {"list", "dict"} THEN Raise("TypeError")
        ELSE IF intent.t = "str"
                /\ \E i \in 1..Len(INTENTS) : INTENTS[i] = intent.s
        THEN Return(intent.s)
        ELSE Return(<<"h","r","_","o","n","b","o","a","r","d","i","n","g">>)

\* lines 44-54 raised err: nothing catches it
OnIntentError(err) == Raise(err)

InitIntent ==
    /\ op = "classify_intent"
    /\ pc = "start"
    /\ task_title = <<>>
    /\ message \in Messages
    /\ context = [is_submission |-> FALSE, is_first_login |-> FALSE]
    /\ response = NoResult
    /\ result = NoResult
    /\ model_calls = 0
    /\ fallback_calls = 0
    /\ agent = NoResult
    /\ earlier = NoResult
    /\ review = NoResult
    /\ chat_history = <<>>
    /\ prompt = <<>>

\* lines 44-51: issue the call
IntentCall ==
    /\ op = "classify_intent"
    /\ pc = "start"
    /\ pc' = "await_model"
    /\ model_calls' = model_calls + 1
    /\ UNCHANGED <<op, task_title, message, context, response, result,
                   fallback_calls, agent, earlier, review, chat_history, prompt>>

\* the call returned a response whose text is text, and json.loads is called
\* with this room
IntentModelReturns(text, room) ==
    /\ op = "classify_intent"
    /\ pc = "await_model"
    /\ result' = OnIntentAnswer(text, room)
    /\ response' = Return(text)
    /\ pc' = "done"
    /\ UNCHANGED <<op, task_title, message, context, model_calls,
                   fallback_calls, agent, earlier, review, chat_history, prompt>>

\* the call, or reading response.text, raised
IntentModelRaises(err) ==
    /\ op = "classify_intent"
    /\ pc = "await_model"
    /\ result' = OnIntentError(err)
    /\ response' = Raise(err)
    /\ pc' = "done"
    /\ UNCHANGED <<op, task_title, message, context, model_calls,
                   fallback_calls, agent, earlier, review, chat_history, prompt>>


\* the texts are what the model may answer to the intent prompt
NextIntent ==
    \/ IntentCall
    \/ \E text \in {
        <<"{","\"","i","n","t","e","n","t","\"",":"," ","\"","s","u","p","e","r","v","i","s","o","r","\"","}">>,
        <<" ","{","\"","i","n","t","e","n","t","\"",":","\"","p","r","o","j","e","c","t","_","m","a","n","a","g","e","r","\"",","," ","\"","c","o","n","f","i","d","e","n","c","e","\"",":"," ","1","}","\n">>,
        <<"{","\"","i","n","t","e","n","t","\"",":"," ","\"","c","a","r","e","e","r","_","s","t","r","a","t","e","g","i","s","t","\"",","," ","\"","r","e","a","s","o","n","\"",":"," ","\"","c","v","\"","}">>,
        <<"{","\"","i","n","t","e","n","t","\"",":"," ","\"","h","r","_","o","n","b","o","a","r","d","i","n","g","\"","}">>,
        <<"{","\"","i","n","t","e","n","t","\"",":"," ","\"","S","u","p","e","r","v","i","s","o","r","\"","}">>,
        <<"{","\"","i","n","t","e","n","t","\"",":"," ","\"","b","o","s","s","\"","}">>,
        <<"{","\"","c","o","n","f","i","d","e","n","c","e","\"",":"," ","1","}">>,
        <<"{","}">>,
        <<"{","\"","i","n","t","e","n","t","\"",":"," ","n","u","l","l","}">>,
        <<"{","\"","i","n","t","e","n","t","\"",":"," ","5","}">>,
        <<"{","\"","i","n","t","e","n","t","\"",":"," ","t","r","u","e","}">>,
        <<"{","\"","i","n","t","e","n","t","\"",":"," ","[","\"","s","u","p","e","r","v","i","s","o","r","\"","]","}">>,
        <<"{","\"","i","n","t","e","n","t","\"",":"," ","{","\"","n","a","m","e","\"",":"," ","\"","s","u","p","e","r","v","i","s","o","r","\"","}","}">>,
        <<"[","\"","s","u","p","e","r","v","i","s","o","r","\"","]">>,
        <<"{","\"","i","n","t","e","n","t","\"",":"," ","\"","s","u","p","e","r","v","i","s","o","r","\"",","," ","\"","t","a","g","s","\"",":"," ","[","[","[","[","\"","a","\"","]","]","]","]","}">>,
        <<"\"","s","u","p","e","r","v","i","s","o","r","\"">>,
        <<"5">>,
        <<"n","u","l","l">>,
        <<"s","u","p","e","r","v","i","s","o","r">>,
        <<"{","\"","i","n","t","e","n","t","\"",":"," ","\"","s","u","p","e","r","v","i","s","o","r","\"">>,
        <<>> }, room \in RecursionRooms : IntentModelReturns(text, room)
    \/ \E err \in ModelErrors \cup Interrupts : IntentModelRaises(err)

SpecIntent == InitIntent /\ [][NextIntent]_vars

---------------------------------------------------------------------------
(* Two invocations of determine_agent on one Orchestrator, the second with *)
(* the same context and a message that differs at most in letter case      *)

Upper(s) == [i \in 1..Len(s) |-> UpperChar(s[i])]

CaseVariants(m) == {m, Lower(m), Upper(m)}

\* the first invocation's message: at most MaxAgainFragments pieces, the
\* sample messages and messages in capitals
MaxAgainFragments == 1

InitAgain ==
    /\ op = "determine_agent"
    /\ pc = "start"
    /\ task_title = <<>>
    /\ message \in
           UNION {{Concat([i \in 1..n |-> Fragments[pick[i]]]) :
                      pick \in [1..n -> 1..Len(Fragments)]} :
                         n \in 0..MaxAgainFragments}
           \cup SampleMessages
           \cup { <<"R","E","F","E","R","E","N","C","E"," ","L","E","T","T","E","R">>, <<"M","y"," ","C","V"," ","i","s"," ","S","T","U","C","K">> }
    /\ context \in Contexts
    /\ response = NoResult
    /\ result = NoResult
    /\ model_calls = 0
    /\ fallback_calls = 0
    /\ agent = NoResult
    /\ earlier = NoResult
    /\ review = NoResult
    /\ chat_history = <<>>
    /\ prompt = <<>>

\* what the hard rules decided in the invocation that has ended: its outcome
\* when no model call was issued, else the decision to go on to the classifier
RulesOutcome == IF model_calls = 0 THEN result ELSE NoResult

\* the invocation has ended; determine_agent is called again with message m2
InvokeAgain(m2) ==
    /\ op = "determine_agent"
    /\ pc = "done"
    /\ earlier = NoResult
    /\ earlier' = [kind |-> "call", message |-> message, context |-> context,
                   rules |-> RulesOutcome, fallback_calls |-> fallback_calls,
                   result |-> result]
    /\ message' = m2
    /\ pc' = "start"
    /\ response' = NoResult
    /\ result' = NoResult
    /\ model_calls' = 0
    /\ fallback_calls' = 0
    /\ UNCHANGED <<op, task_title, context, agent, review, chat_history, prompt>>

NextAgain ==
    \/ Next
    \/ \E m2 \in CaseVariants(message) : InvokeAgain(m2)

SpecAgain == InitAgain /\ [][NextAgain]_vars
---------------------------------------------------------------------------
(* app/utils/link_verifier.py: clean_broken_links_sync                     *)

\* the characters the class of the URL pattern excludes: whitespace and
\* < > " { } | \ ^ grave [ ]
UrlExcluded ==
    PyWhitespace \cup {"<", ">", "\"", "{", "}", "|", "\\", "^", Tick, "[", "]"}

\* the length of http:// or https:// at index i, or 0
SchemeAt(s, i) ==
    IF LiteralAt(s, i, <<"h","t","t","p",":","/","/">>) THEN 7
    ELSE IF LiteralAt(s, i, <<"h","t","t","p","s",":","/","/">>) THEN 8
    ELSE 0

\* the first index from i that holds no character of a URL
RECURSIVE UrlEnd(_, _)
UrlEnd(s, i) ==
    IF i <= Len(s) /\ s[i] \notin UrlExcluded THEN UrlEnd(s, i + 1) ELSE i

\* the pattern https?://[^...]+ matched at index i: the index of the last
\* character of the match, or 0
UrlMatchEnd(s, i) ==
    LET n == SchemeAt(s, i)
    IN  IF n # 0 /\ UrlEnd(s, i + n) > i + n THEN UrlEnd(s, i + n) - 1 ELSE 0

\* url_pattern.findall(text): the matches from left to right, none overlapping
RECURSIVE FindAll(_, _)
FindAll(s, i) ==
    IF i > Len(s) THEN <<>>
    ELSE IF UrlMatchEnd(s, i) # 0
    THEN <<SubSeq(s, i, UrlMatchEnd(s, i))>> \o FindAll(s, UrlMatchEnd(s, i) + 1)
    ELSE FindAll(s, i + 1)

\* the pattern \[([^\]]+)\]\(url\) matched at index i: the index of the
\* bracket that ends group 1 (the closing parenthesis is Len(url) + 2 further),
\* or 0
MarkdownGroupEnd(s, i, url) ==
    LET closing == {j \in (i + 1)..Len(s) : s[j] = "]"}
        j == CHOOSE j \in closing : \A k \in closing : j <= k
    IN  IF At(s, i) = "[" /\ closing # {} /\ j > i + 1
           /\ LiteralAt(s, j + 1, <<"(">> \o url \o <<")">>)
        THEN j ELSE 0

\* re.sub(r'\[([^\]]+)\]\(' + re.escape(url) + r'\)', r'\1', s) from index i
RECURSIVE SubMarkdown(_, _, _)
SubMarkdown(s, url, i) ==
    IF i > Len(s) THEN <<>>
    ELSE IF MarkdownGroupEnd(s, i, url) # 0
    THEN SubSeq(s, i + 1, MarkdownGroupEnd(s, i, url) - 1)
         \o SubMarkdown(s, url, MarkdownGroupEnd(s, i, url) + Len(url) + 3)
    ELSE <<s[i]>> \o SubMarkdown(s, url, i + 1)

\* s.replace(old, new) from index i, old not empty
RECURSIVE Replace(_, _, _, _)
Replace(s, old, new, i) ==
    IF i > Len(s) THEN <<>>
    ELSE IF LiteralAt(s, i, old)
    THEN new \o Replace(s, old, new, i + Len(old))
    ELSE <<s[i]>> \o Replace(s, old, new, i + 1)

\* the first index from i that holds no whitespace
RECURSIVE SkipSpace(_, _)
SkipSpace(s, i) ==
    IF i <= Len(s) /\ s[i] \in PyWhitespace THEN SkipSpace(s, i + 1) ELSE i

\* the pattern \n\s*\n matched at index i: the index of the last newline of
\* the run of whitespace that starts there, or 0
BlankEnd(s, i) ==
    LET ends == {j \in (i + 1)..(SkipSpace(s, i) - 1) : s[j] = "\n"}
    IN  IF At(s, i) = "\n" /\ ends # {}
        THEN CHOOSE j \in ends : \A k \in ends : k <= j
        ELSE 0

\* re.sub(r'\n\s*\n', '\n\n', s) from index i
RECURSIVE SubBlank(_, _)
SubBlank(s, i) ==
    IF i > Len(s) THEN <<>>
    ELSE IF BlankEnd(s, i) # 0
    THEN <<"\n", "\n">> \o SubBlank(s, BlankEnd(s, i) + 1)
    ELSE <<s[i]>> \o SubBlank(s, i + 1)

\* the loop over broken_urls from its k-th element
RECURSIVE RemoveBroken(_, _, _)
RemoveBroken(text, broken_urls, k) ==
    IF k > Len(broken_urls) THEN text
    ELSE RemoveBroken(
             Replace(SubMarkdown(text, broken_urls[k], 1), broken_urls[k], <<>>, 1),
             broken_urls, k + 1)

\* clean_broken_links_sync(text): verify_url_sync is called once for every
\* occurrence of a URL, in the order of findall, and verified[i] is its answer
\* for the i-th occurrence; a URL is listed in broken_urls once for each of
\* its occurrences that was answered False
clean_broken_links_sync(text, verified) ==
    LET urls == FindAll(text, 1)
        RECURSIVE BrokenFrom(_)
        BrokenFrom(i) ==
            IF i > Len(urls) THEN <<>>
            ELSE (IF verified[i] THEN <<>> ELSE <<urls[i]>>) \o BrokenFrom(i + 1)
    IN  Strip(SubBlank(RemoveBroken(text, BrokenFrom(1), 1), 1))

\* texts are built from at most MaxLinkPieces of these pieces, plus sample
\* texts in the manner of test_link_cleaning.py
MaxLinkPieces == 3

InitLinks ==
    /\ op = "clean_broken_links_sync"
    /\ pc = "start"
    /\ task_title = <<>>
    /\ message \in
           LET LinkPieces == <<
               <<"h","t","t","p",":","/","/","a">>, <<"h","t","t","p",":","/","/","a","b">>, <<"[","t","]","(","h","t","t","p",":","/","/","a",")">>, <<" ">>, <<"\n">>, <<"b">> >>
           IN  UNION {{Concat([i \in 1..n |-> LinkPieces[pick[i]]]) :
                          pick \in [1..n -> 1..Len(LinkPieces)]} :
                             n \in 0..MaxLinkPieces}
               \cup {
                   <<"S","e","e",":","\n","h","t","t","p","s",":","/","/","h","u","b",".","c","o","m"," ","o","k","\n","h","t","t","p","s",":","/","/","n","o",".","i","o"," ","b","a","d">>,
                   <<"1","."," ","[","M","]","(","h","t","t","p","s",":","/","/","m",".","o","r","g",")","\n","\n"," ","\n","2","."," ","[","F","]","(","h","t","t","p","s",":","/","/","x",".","n","e","t",")">>,
                   <<"h","t","t","p",":","/","/","a","b"," ","h","t","t","p",":","/","/","c"," ","h","t","t","p",":","/","/","a","h","t","t","p",":","/","/","c","b">>,
                   <<"s","e","e"," ","[","d","o","c","s","]","(","h","t","t","p",":","/","/","a",")"," ","o","r"," ","h","t","t","p",":","/","/","a">>,
                   <<"h","t","t","p",":","/","/","a"," ","h","t","t","p",":","/","/","a"," ","<","h","t","t","h","t","t","p",":","/","/","a","p",":","/","/","a">> }
    /\ context = [is_submission |-> FALSE, is_first_login |-> FALSE]
    /\ response = NoResult
    /\ result = NoResult
    /\ model_calls = 0
    /\ fallback_calls = 0
    /\ agent = NoResult
    /\ earlier = NoResult
    /\ review = NoResult
    /\ chat_history = <<>>
    /\ prompt = <<>>

\* the whole call on the text message: response records the answers of
\* verify_url_sync, one for each occurrence of a URL
CleanBrokenLinks(verified) ==
    /\ op = "clean_broken_links_sync"
    /\ pc = "start"
    /\ response' = Return(verified)
    /\ result' = Return(clean_broken_links_sync(message, verified))
    /\ pc' = "done"
    /\ UNCHANGED <<op, task_title, message, context, model_calls,
                   fallback_calls, agent, earlier, review, chat_history, prompt>>

NextLinks ==
    \E verified \in [1..Len(FindAll(message, 1)) -> BOOLEAN] :
        CleanBrokenLinks(verified)

SpecLinks == InitLinks /\ [][NextLinks]_vars


---------------------------------------------------------------------------
(* Claims about determine_agent, checked under Spec                        *)

HasRecommendationPhrase == ContainsAny(RecommendationPhrases, Lower(message))

\* C1: for every message and every context with is_submission = true,
\* whatever is_first_login, determine_agent returns Sola and issues no model
\* call.
C1_SubmissionReturnsSola ==
    context.is_submission =>
        /\ model_calls = 0
        /\ pc # "await_model"
        /\ pc = "done" => result = Return("Sola")

\* a submission that is also a first login, with a recommendation phrase and a
\* distress keyword in the message, has been routed
C1_Witness ==
    /\ pc = "done"
    /\ context.is_submission /\ context.is_first_login
    /\ HasRecommendationPhrase
    /\ Contains(<<"w","o","r","r","i","e","d">>, Lower(message))
    /\ result = Return("Sola")

\* C2: when no hard rule fires and the model call raises an error, whatever
\* the error, determine_agent does not raise: it returns a member of
\* AgentName, the one _fallback_routing gives for the lower-cased message.
C2_ModelErrorFallsBack ==
    (op = "determine_agent" /\ pc = "done" /\ response.kind = "raise") =>
        /\ result.kind = "return"
        /\ result.value \in AgentName
        /\ result.value = _fallback_routing(Lower(message))

\* C3: a message with a recommendation phrase, with is_submission and
\* is_first_login false, is routed to the recommendation agent and no model
\* call is made.
C3_PhraseReturnsRecommender ==
    (pc = "done" /\ ~context.is_submission /\ ~context.is_first_login
        /\ HasRecommendationPhrase) =>
        /\ result.kind = "return"
        /\ result.value = "Recommender"
        /\ model_calls = 0

\* C4: for every message and every context with is_first_login = true and
\* is_submission = false, determine_agent returns Tolu and issues no model
\* call, also when the message has a recommendation phrase.
C4_FirstLoginReturnsTolu ==
    (context.is_first_login /\ ~context.is_submission) =>
        /\ model_calls = 0
        /\ pc # "await_model"
        /\ pc = "done" => result = Return("Tolu")

\* a first login whose message has a recommendation phrase has been routed
C4_Witness ==
    /\ pc = "done"
    /\ context.is_first_login /\ ~context.is_submission
    /\ HasRecommendationPhrase
    /\ result = Return("Tolu")

\* the four agent tokens, lower-cased
AgentTokens == << <<"t","o","l","u">>, <<"e","m","e","m">>, <<"s","o","l","a">>, <<"k","e","m","i">> >>

\* the answer is one of the four tokens in some letter case, with whitespace
\* around it
AnswerIsToken(text) == \E i \in 1..4 : Lower(Strip(text)) = AgentTokens[i]

\* C9: when the model call succeeds with an answer that, trimmed and
\* title-cased, is not exactly Tolu, Emem, Sola or Kemi, determine_agent
\* returns what _fallback_routing gives for the lower-cased message.
C9_UnrecognisedAnswerFallsBack ==
    (pc = "done" /\ response.kind = "return"
        /\ \A i \in 1..4 : Title(Strip(response.value)) # agent_map_keys[i]) =>
        /\ result = Return(_fallback_routing(Lower(message)))
        /\ fallback_calls = 1

\* the model answered with a sentence naming Kemi, and the heuristic chose
\* another agent
C9_Witness ==
    /\ pc = "done"
    /\ response = Return(<<"I"," ","t","h","i","n","k"," ","K","e","m","i">>)
    /\ result = Return("Emem")

\* C10: when no hard rule fires and the model answers with one of the four
\* agent tokens in any letter case and with any surrounding whitespace,
\* determine_agent returns the agent of that token and _fallback_routing is
\* not called.
C10_TokenAnswerIsMapped ==
    (pc = "done" /\ response.kind = "return" /\ AnswerIsToken(response.value)) =>
        /\ \E i \in 1..4 :
              /\ Lower(Strip(response.value)) = AgentTokens[i]
              /\ result = Return(agent_map_values[i])
        /\ fallback_calls = 0

\* the model answered kEMI between blanks for a message the heuristic would
\* give to another agent
C10_Witness ==
    /\ pc = "done"
    /\ response = Return(<<" "," ","k","E","M","I"," ","\n">>)
    /\ result = Return("Kemi")
    /\ _fallback_routing(Lower(message)) = "Emem"

\* determine_agent has returned what _fallback_routing gave
FellBack == op = "determine_agent" /\ pc = "done" /\ fallback_calls = 1

KeywordLists ==
    <<emotional_keywords, career_keywords, task_keywords, tech_keywords,
      hr_keywords>>

NoKeywordOccurs(msg) ==
    \A l \in 1..Len(KeywordLists) : ~ContainsAny(KeywordLists[l], msg)

\* C11: for every message in which no word of any keyword vocabulary occurs,
\* _fallback_routing returns Sola.
C11_NoKeywordReturnsSola ==
    (FellBack /\ NoKeywordOccurs(Lower(message))) => result = Return("Sola")

\* the model call failed on the message ok and the heuristic was used
C11_Witness ==
    /\ FellBack
    /\ message = <<"o","k">>
    /\ NoKeywordOccurs(Lower(message))
    /\ response.kind = "raise"
    /\ result = Return("Sola")

\* the hits of a category: list entries found in msg, the emotional and the
\* career lists together for Kemi
CategoryHits(a, msg) ==
    CASE a = "Kemi" -> KeywordCount(emotional_keywords, msg)
                         + KeywordCount(career_keywords, msg)
      [] a = "Emem" -> KeywordCount(task_keywords, msg)
      [] a = "Sola" -> KeywordCount(tech_keywords, msg)
      [] a = "Tolu" -> KeywordCount(hr_keywords, msg)

StrictlyHighest(a, msg) ==
    /\ CategoryHits(a, msg) > 0
    /\ \A b \in AgentName \ {a} : CategoryHits(b, msg) < CategoryHits(a, msg)

\* C12: for every message in which exactly one category has the strictly
\* highest positive score, the Kemi score being the sum of the emotional and
\* career hits, _fallback_routing returns that category's agent.
C12_StrictlyHighestWins ==
    FellBack =>
        \A a \in AgentName :
            StrictlyHighest(a, Lower(message)) => result = Return(a)

\* worried, cv and interview are the only hits of the sample message, one
\* emotional and two career, and the career coach is chosen
C12_Witness ==
    /\ FellBack
    /\ message = <<"I","'","m"," ","r","e","a","l","l","y"," ","w","o","r","r","i","e","d"," ","a","b","o","u","t"," ","m","y"," ","c","v"," ","a","n","d"," ","t","h","e"," ","u","p","c","o","m","i","n","g"," ","i","n","t","e","r","v","i","e","w">>
    /\ KeywordCount(emotional_keywords, Lower(message)) = 1
    /\ KeywordCount(career_keywords, Lower(message)) = 2
    /\ \A b \in AgentName \ {"Kemi"} : CategoryHits(b, Lower(message)) = 0
    /\ result = Return("Kemi")

\* the agents whose score is the maximum
TiedAtMax(msg) ==
    {a \in AgentName :
        \A b \in AgentName : CategoryHits(b, msg) <= CategoryHits(a, msg)}

\* the first member of set in order
FirstIn(order, set) ==
    order[CHOOSE i \in 1..Len(order) :
              /\ order[i] \in set
              /\ \A j \in 1..(i - 1) : order[j] \notin set]

\* the tie order of the specification
SpecTieOrder == <<"Sola", "Emem", "Tolu", "Kemi">>

\* C13: when two or more categories tie for the maximum score and that
\* maximum is greater than zero, _fallback_routing returns the first tied
\* agent in the order Sola, Emem, Tolu, Kemi.
C13_TieFollowsSpecOrder ==
    LET msg == Lower(message)
        tied == TiedAtMax(msg)
    IN  (FellBack /\ Cardinality(tied) >= 2
            /\ \E a \in tied : CategoryHits(a, msg) > 0) =>
            result = Return(FirstIn(SpecTieOrder, tied))

\* the number of places of s where k occurs
Occurrences(k, s) ==
    Cardinality({i \in 1..(Len(s) - Len(k) + 1) :
                    SubSeq(s, i, i + Len(k) - 1) = k})

\* the occurrences in msg of the distinct words of keywords, each word taken
\* at its first place in the list
RECURSIVE OccurrencesOfWords(_, _, _)
OccurrencesOfWords(keywords, msg, i) ==
    IF i > Len(keywords) THEN 0
    ELSE (IF \E j \in 1..(i - 1) : keywords[j] = keywords[i]
          THEN 0 ELSE Occurrences(keywords[i], msg))
         + OccurrencesOfWords(keywords, msg, i + 1)

OccurrenceScores(msg) ==
    [a \in AgentName |->
        CASE a = "Kemi" -> OccurrencesOfWords(emotional_keywords, msg, 1)
                             + OccurrencesOfWords(career_keywords, msg, 1)
          [] a = "Emem" -> OccurrencesOfWords(task_keywords, msg, 1)
          [] a = "Sola" -> OccurrencesOfWords(tech_keywords, msg, 1)
          [] a = "Tolu" -> OccurrencesOfWords(hr_keywords, msg, 1)]

\* C14: each category score computed by _fallback_routing equals the total
\* number of occurrences in the lower-cased message of that category's
\* distinct vocabulary words, a word appearing n times contributing n.
C14_ScoresCountOccurrences ==
    FellBack => Scores(Lower(message)) = OccurrenceScores(Lower(message))

\* the closed set of agent identities of the specification
AgentIdentities == AgentName \cup {"Recommender"}

\* C15: every invocation of determine_agent whose model call has returned or
\* failed, or that made none, ends by returning an agent identity of the
\* closed set, for every message and context: stated on the final state.
C15_EndsWithAgent ==
    (op = "determine_agent" /\ pc = "done") =>
        /\ result.kind = "return"
        /\ result.value \in AgentIdentities

---------------------------------------------------------------------------
(* Claims about the structured operations, checked under SpecStructured    *)

\* float(lex) == 0.0 for the literal of a JSON number: its digits are all
\* zero, or it is so small that the nearest double is zero, which is when it
\* is at most 2^-1075, half the smallest double above zero
FloatIsZero(lex) ==
    LET Least(set) == CHOOSE k \in set : \A j \in set : k <= j
        \* the index of the last digit that is not zero
        Last(digits, nonzero) ==
            CHOOSE k \in nonzero : \A j \in (k + 1)..Len(digits) : digits[j] = "0"
        \* the digits from first to last, as a number below 10, are at most
        \* those of half
        AtMostHalf(half, digits, first, last) ==
            LET Digit(k) == IF first + k - 1 <= last THEN digits[first + k - 1]
                            ELSE "0"
            IN  \/ \E k \in 1..Len(half) :
                       /\ DigitValue(Digit(k)) < DigitValue(half[k])
                       /\ \A j \in 1..(k - 1) : Digit(j) = half[j]
                \/ /\ last - first + 1 <= Len(half)
                   /\ \A k \in 1..Len(half) : Digit(k) = half[k]
        \* the digit of index first, the first that is not zero, counts 10^top,
        \* and sign is the sign of top + 324; half holds the digits of
        \* 2^-1075 = 0.24703... * 10^-323, which are those of 5^1075
        Compare(digits, first, last, sign) ==
            IF sign # 0 THEN sign < 0
            ELSE AtMostHalf(<<
                "2", "4", "7", "0", "3", "2", "8", "2", "2", "9", "2", "0",
                "6", "2", "3", "2", "7", "2", "0", "8", "8", "2", "8", "4",
                "3", "9", "6", "4", "3", "4", "1", "1", "0", "6", "8", "6",
                "1", "8", "2", "5", "2", "9", "9", "0", "1", "3", "0", "7",
                "1", "6", "2", "3", "8", "2", "2", "1", "2", "7", "9", "2",
                "8", "4", "1", "2", "5", "0", "3", "3", "7", "7", "5", "3",
                "6", "3", "5", "1", "0", "4", "3", "7", "5", "9", "3", "2",
                "6", "4", "9", "9", "1", "8", "1", "8", "0", "8", "1", "7",
                "9", "9", "6", "1", "8", "9", "8", "9", "8", "2", "8", "2",
                "3", "4", "7", "7", "2", "2", "8", "5", "8", "8", "6", "5",
                "4", "6", "3", "3", "2", "8", "3", "5", "5", "1", "7", "7",
                "9", "6", "9", "8", "9", "8", "1", "9", "9", "3", "8", "7",
                "3", "9", "8", "0", "0", "5", "3", "9", "0", "9", "3", "9",
                "0", "6", "3", "1", "5", "0", "3", "5", "6", "5", "9", "5",
                "1", "5", "5", "7", "0", "2", "2", "6", "3", "9", "2", "2",
                "9", "0", "8", "5", "8", "3", "9", "2", "4", "4", "9", "1",
                "0", "5", "1", "8", "4", "4", "3", "5", "9", "3", "1", "8",
                "0", "2", "8", "4", "9", "9", "3", "6", "5", "3", "6", "1",
                "5", "2", "5", "0", "0", "3", "1", "9", "3", "7", "0", "4",
                "5", "7", "6", "7", "8", "2", "4", "9", "2", "1", "9", "3",
                "6", "5", "6", "2", "3", "6", "6", "9", "8", "6", "3", "6",
                "5", "8", "4", "8", "0", "7", "5", "7", "0", "0", "1", "5",
                "8", "5", "7", "6", "9", "2", "6", "9", "9", "0", "3", "7",
                "0", "6", "3", "1", "1", "9", "2", "8", "2", "7", "9", "5",
                "5", "8", "5", "5", "1", "3", "3", "2", "9", "2", "7", "8",
                "3", "4", "3", "3", "8", "4", "0", "9", "3", "5", "1", "9",
                "7", "8", "0", "1", "5", "5", "3", "1", "2", "4", "6", "5",
                "9", "7", "2", "6", "3", "5", "7", "9", "5", "7", "4", "6",
                "2", "2", "7", "6", "6", "4", "6", "5", "2", "7", "2", "8",
                "2", "7", "2", "2", "0", "0", "5", "6", "3", "7", "4", "0",
                "0", "6", "4", "8", "5", "4", "9", "9", "9", "7", "7", "0",
                "9", "6", "5", "9", "9", "4", "7", "0", "4", "5", "4", "0",
                "2", "0", "8", "2", "8", "1", "6", "6", "2", "2", "6", "2",
                "3", "7", "8", "5", "7", "3", "9", "3", "4", "5", "0", "7",
                "3", "6", "3", "3", "9", "0", "0", "7", "9", "6", "7", "7",
                "6", "1", "9", "3", "0", "5", "7", "7", "5", "0", "6", "7",
                "4", "0", "1", "7", "6", "3", "2", "4", "6", "7", "3", "6",
                "0", "0", "9", "6", "8", "9", "5", "1", "3", "4", "0", "5",
                "3", "5", "5", "3", "7", "4", "5", "8", "5", "1", "6", "6",
                "6", "1", "1", "3", "4", "2", "2", "3", "7", "6", "6", "6",
                "7", "8", "6", "0", "4", "1", "6", "2", "1", "5", "9", "6",
                "8", "0", "4", "6", "1", "9", "1", "4", "4", "6", "7", "2",
                "9", "1", "8", "4", "0", "3", "0", "0", "5", "3", "0", "0",
                "5", "7", "5", "3", "0", "8", "4", "9", "0", "4", "8", "7",
                "6", "5", "3", "9", "1", "7", "1", "1", "3", "8", "6", "5",
                "9", "1", "6", "4", "6", "2", "3", "9", "5", "2", "4", "9",
                "1", "2", "6", "2", "3", "6", "5", "3", "8", "8", "1", "8",
                "7", "9", "6", "3", "6", "2", "3", "9", "3", "7", "3", "2",
                "8", "0", "4", "2", "3", "8", "9", "1", "0", "1", "8", "6",
                "7", "2", "3", "4", "8", "4", "9", "7", "6", "6", "8", "2",
                "3", "5", "0", "8", "9", "8", "6", "3", "3", "8", "8", "5",
                "8", "7", "9", "2", "5", "6", "2", "8", "3", "0", "2", "7",
                "5", "5", "9", "9", "5", "6", "5", "7", "5", "2", "4", "4",
                "5", "5", "5", "0", "7", "2", "5", "5", "1", "8", "9", "3",
                "1", "3", "6", "9", "0", "8", "3", "6", "2", "5", "4", "7",
                "7", "9", "1", "8", "6", "9", "4", "8", "6", "6", "7", "9",
                "9", "4", "9", "6", "8", "3", "2", "4", "0", "4", "9", "7",
                "0", "5", "8", "2", "1", "0", "2", "8", "5", "1", "3", "1",
                "8", "5", "4", "5", "1", "3", "9", "6", "2", "1", "3", "8",
                "3", "7", "7", "2", "2", "8", "2", "6", "1", "4", "5", "4",
                "3", "7", "6", "9", "3", "4", "1", "2", "5", "3", "2", "0",
                "9", "8", "5", "9", "1", "3", "2", "7", "6", "6", "7", "2",
                "3", "6", "3", "2", "8", "1", "2", "5" >>,
                     digits, first, last)
        Sign(n) == IF n < 0 THEN 0 - 1 ELSE IF n > 0 THEN 1 ELSE 0
        \* the sign of E - x, for a number x that is at least zero and E the
        \* exponent without its sign, spelled by the digits of lex from index
        \* from on, the first of them that is not zero (from is past the end
        \* of lex when there is none: E is 0).  E may have any number of
        \* digits: with more than ten it exceeds every x; else the number
        \* its digits before the last spell is compared with x \div 10, and
        \* then its last digit with x % 10.
        ExponentSign(from, x) ==
            IF from > Len(lex) THEN Sign(0 - x)
            ELSE IF Len(lex) - from + 1 > 10 THEN 1
            ELSE IF IntValue(lex, from, Len(lex), 0) # (x \div 10)
            THEN Sign(IntValue(lex, from, Len(lex), 0) - (x \div 10))
            ELSE Sign(DigitValue(lex[Len(lex)]) - (x % 10))
        \* the sign of point + 324 - E or of point + 324 + E: that of
        \* top + 324, the first digit that is not zero counting 10^top
        TopSign(point, from, negative) ==
            IF negative
            THEN IF point + 324 < 0 THEN 0 - 1
                 ELSE 0 - ExponentSign(from, point + 324)
            ELSE IF point + 324 > 0 THEN 1
                 ELSE ExponentSign(from, 0 - (point + 324))
        FromExponent(nonzero_exp) ==
            IF nonzero_exp = {} THEN Len(lex) + 1 ELSE Least(nonzero_exp)
        WithDigits(digits, nonzero, int_len, exp_start, negative) ==
            IF nonzero = {} THEN TRUE
            ELSE Compare(digits, Least(nonzero), Last(digits, nonzero),
                         TopSign(int_len - Least(nonzero),
                                 FromExponent({k \in exp_start..Len(lex) :
                                                  lex[k] # "0"}),
                                 negative))
        WithParts(digits, int_len, frac_end) ==
            WithDigits(digits, {k \in 1..Len(digits) : digits[k] # "0"}, int_len,
                       IF At(lex, frac_end + 1) \in {"+", "-"}
                       THEN frac_end + 2 ELSE frac_end + 1,
                       At(lex, frac_end + 1) = "-")
        WithFraction(start, int_end, frac_end) ==
            WithParts(SubSeq(lex, start, int_end - 1)
                          \o SubSeq(lex, int_end + 1, frac_end - 1),
                      int_end - start, frac_end)
        WithInteger(start, int_end) ==
            WithFraction(start, int_end,
                         IF At(lex, int_end) = "."
                         THEN SkipDigits(lex, int_end + 1) ELSE int_end)
        From(start) ==
            IF ~IsDigit(At(lex, start)) THEN FALSE   \* NaN, Infinity, -Infinity
            ELSE WithInteger(start, SkipDigits(lex, start))
    IN  From(IF lex[1] = "-" THEN 2 ELSE 1)

\* bool(value), for a decoded value
Truthy(value) ==
    CASE value.t = "NoneType" -> FALSE
      [] value.t = "bool" -> value.b
      [] value.t = "int" -> value.n # <<"0">>
      [] value.t = "float" -> ~FloatIsZero(value.lex)
      [] value.t = "str" -> value.s # <<>>
      [] value.t \in {"list", "dict"} -> value.items # <<>>

\* the dicts that slices of the text, from an opening brace to a closing
\* brace, decode to, given room for every object and array of the text
ObjectsIn(text) ==
    {JsonLoads(SubSeq(text, i, j), Len(text)).val :
        <<i, j>> \in {p \in (1..Len(text)) \X (1..Len(text)) :
                         /\ p[1] < p[2]
                         /\ text[p[1]] = "{"
                         /\ text[p[2]] = "}"
                         /\ JsonLoads(SubSeq(text, p[1], p[2]), Len(text)).ok}}

ReviewReturned ==
    /\ op = "sola.review_submission"
    /\ pc = "done"
    /\ response.kind = "return"

\* C5: when the text of the model's review holds no decodable JSON object,
\* sola.review_submission raises nothing and returns the default review:
\* passed false, score 0 and a non-empty list of improvement points.
C5_NoObjectYieldsRejection ==
    (ReviewReturned /\ ObjectsIn(response.value) = {}) =>
        /\ result.kind = "return"
        /\ result.value.t = "dict"
        /\ DictGet(result.value, <<"p","a","s","s","e","d">>) = JBool(FALSE)
        /\ DictGet(result.value, <<"s","c","o","r","e">>) = JInt(<<"0">>)
        /\ DictGet(result.value, <<"i","m","p","r","o","v","e","m","e","n","t","_","p","o","i","n","t","s">>).t = "list"
        /\ DictGet(result.value, <<"i","m","p","r","o","v","e","m","e","n","t","_","p","o","i","n","t","s">>).items # <<>>
        /\ DictGet(result.value, <<"f","e","e","d","b","a","c","k">>) = JStr(response.value)

\* an object of the model's text that has both feedback and passed
ValidObjectsIn(text) ==
    {object \in ObjectsIn(text) :
        DictHas(object, <<"f","e","e","d","b","a","c","k">>) /\ DictHas(object, <<"p","a","s","s","e","d">>)}

\* C6: in every outcome of sola.review_submission the returned result has a
\* truthy passed only if some part of the model's text decodes to a JSON
\* object that has both feedback and passed, with that value of passed; and
\* whenever no part of the text decodes to such an object, a result is
\* returned and its passed is false.
C6_ReviewFailsClosed ==
    (op = "sola.review_submission" /\ pc = "done") =>
        /\ result.kind = "return" =>
               /\ result.value.t = "dict"
               /\ DictHas(result.value, <<"p","a","s","s","e","d">>)
               /\ Truthy(DictGet(result.value, <<"p","a","s","s","e","d">>)) =>
                      /\ response.kind = "return"
                      /\ \E object \in ValidObjectsIn(response.value) :
                             DictGet(object, <<"p","a","s","s","e","d">>)
                                 = DictGet(result.value, <<"p","a","s","s","e","d">>)
        /\ (response.kind = "return" /\ ValidObjectsIn(response.value) = {}) =>
               /\ result.kind = "return"
               /\ DictGet(result.value, <<"p","a","s","s","e","d">>) = JBool(FALSE)

\* the predefined default of each structured operation
OperationDefault(operation, response_text, title) ==
    CASE operation = "sola.review_submission" -> ReviewDefault(response_text)
      [] operation = "tolu.assess_bio" -> AssessDefault(response_text)
      [] operation = "kemi.translate_to_cv_bullet" -> BulletDefault(title)

\* C7: for each structured operation, when the model call succeeds with a
\* text that holds no JSON object (no JSON at all, truncated JSON, or JSON
\* that is a list, a string or a number), the operation returns its
\* predefined default and no error reaches the caller.
C7_NoObjectYieldsDefault ==
    (op \in StructuredOps /\ pc = "done" /\ response.kind = "return"
        /\ ObjectsIn(response.value) = {}) =>
        /\ result.kind = "return"
        /\ result.value = OperationDefault(op, response.value, task_title)

\* the body of a fenced text: what follows the opening fence line, without a
\* closing fence
FencedBody(text) == Strip(SolaStripFence(Strip(text)))

\* C8: when the model's review text is a JSON object with feedback and passed
\* inside a code fence, sola.review_submission returns a dict whose passed,
\* score and feedback are those of the object.
C8_FencedObjectIsReturned ==
    (/\ ReviewReturned
     /\ StartsWith(Strip(response.value), Fence)
     /\ JsonLoads(FencedBody(response.value), Len(response.value)).ok
     /\ ValidReview(JsonLoads(FencedBody(response.value), Len(response.value)).val)) =>
        LET object == JsonLoads(FencedBody(response.value), Len(response.value)).val
        IN  /\ result.kind = "return"
            /\ result.value.t = "dict"
            /\ \A key \in {<<"f","e","e","d","b","a","c","k">>, <<"p","a","s","s","e","d">>, <<"s","c","o","r","e">>} :
                   DictHas(object, key) =>
                       /\ DictHas(result.value, key)
                       /\ DictGet(result.value, key) = DictGet(object, key)

---------------------------------------------------------------------------
(* Claims about route_message, checked under SpecRoute                     *)

\* C16: for every message and context, when determine_agent has resolved an
\* agent and no generation call has failed, route_message returns an envelope
\* whose agent is the resolved identity, whose message is a text and whose
\* metadata holds the snapshot of the context fields.
C16_RouteReturnsEnvelope ==
    (op = "route_message" /\ pc = "done" /\ agent.kind = "return") =>
        /\ result.kind = "return"
        /\ result.value = ChatResponse(agent.value, result.value.message,
                                       BuildCtx(context).value)

---------------------------------------------------------------------------
(* Claims about classify_intent, checked under SpecIntent                  *)

\* C18: classify_intent returns hr_onboarding on any classification failure
\* (the call failing, an answer that is not JSON or not a mapping, an intent
\* that is missing, unrecognised or not a string); its result is always a key
\* of INTENTS and no error reaches the caller.
C18_IntentFailsToOnboarding ==
    (op = "classify_intent" /\ pc = "done") =>
        /\ result.kind = "return"
        /\ \E i \in 1..Len(INTENTS) : result.value = INTENTS[i]
        /\ (\/ response.kind = "raise"
            \/ \A i \in 1..Len(INTENTS) :
                   ~Contains(<<"\"">> \o INTENTS[i] \o <<"\"">>, response.value))
               => result.value = <<"h","r","_","o","n","b","o","a","r","d","i","n","g">>

---------------------------------------------------------------------------
(* Claims about repeated invocations, checked under SpecAgain              *)

\* the hard rules of the present invocation have been applied
RulesApplied == op = "determine_agent" /\ pc \in {"await_model", "done"}

\* what they decided: an outcome, or to go on to the classifier
RulesDecision == IF model_calls = 0 THEN result ELSE NoResult

\* C20: for two messages that differ only in letter case, with the same
\* context, the deterministic rules give the same outcome, and when both
\* invocations fall back to _fallback_routing it gives the same agent.
C20_CaseInsensitive ==
    (RulesApplied /\ earlier # NoResult
        /\ Lower(earlier.message) = Lower(message)
        /\ earlier.context = context) =>
        /\ RulesDecision = earlier.rules
        /\ (pc = "done" /\ fallback_calls = 1 /\ earlier.fallback_calls = 1)
               => result = earlier.result

\* My CV is STUCK was routed in two letter cases with no flag set: both times
\* no rule fired, the model call failed or answered nothing usable, and the
\* keyword heuristic chose Kemi
C20_Witness ==
    /\ RulesApplied /\ pc = "done"
    /\ earlier # NoResult
    /\ earlier.message # message
    /\ Lower(earlier.message) = Lower(message)
    /\ message = <<"M","Y"," ","C","V"," ","I","S"," ","S","T","U","C","K">>
    /\ earlier.rules = NoResult /\ RulesDecision = NoResult
    /\ fallback_calls = 1 /\ earlier.fallback_calls = 1
    /\ result = Return("Kemi") /\ earlier.result = Return("Kemi")

---------------------------------------------------------------------------
(* Claims about clean_broken_links_sync, checked under SpecLinks           *)

\* the set of the elements of a list
Range(seq) == {seq[i] : i \in 1..Len(seq)}

\* C21: for every text and every outcome of URL verification, no URL that
\* failed verification is a URL of the output, and every URL of the input
\* that passed verification is still a URL of the output, also when a broken
\* URL is a prefix of a valid one.  A URL failed when one of its occurrences
\* was answered False, and passed when all of them were answered True.
C21_OnlyBrokenLinksRemoved ==
    (op = "clean_broken_links_sync" /\ pc = "done") =>
        LET urls == FindAll(message, 1)
            Failed(url) == \E i \in 1..Len(urls) : urls[i] = url /\ ~response.value[i]
        IN  \A url \in Range(urls) :
                (url \in Range(FindAll(result.value, 1))) <=> ~Failed(url)

---------------------------------------------------------------------------
(* Claims about the order and number of the calls of determine_agent,      *)
(* checked under Spec                                                      *)

\* C22: within one determine_agent invocation the deterministic rules are
\* evaluated before any model call is issued, and _fallback_routing runs only
\* after the single model-call attempt has completed, with an unrecognised
\* answer or a failure; it never runs before or without that attempt.
C22_RulesThenModelThenFallback ==
    /\ [](pc = "start" => (model_calls = 0 /\ fallback_calls = 0))
    /\ [](fallback_calls > 0 =>
              /\ model_calls = 1
              /\ pc = "done"
              /\ \/ response.kind = "raise"
                 \/ /\ response.kind = "return"
                    /\ AgentMapGet(AgentRaw(response.value)) = "None")
    /\ [][model_calls' > model_calls =>
              (pc = "start" /\ HardRules(Lower(message), context) = NoResult)]_vars
    /\ [][fallback_calls' > fallback_calls =>
              (pc = "await_model" /\ model_calls = 1 /\ response = NoResult
                  /\ response' # NoResult)]_vars

\* no rule fired, the model was asked once and named an agent that does not
\* exist, and only then the keyword heuristic ran
C22_Witness ==
    /\ op = "determine_agent" /\ pc = "done"
    /\ HardRules(Lower(message), context) = NoResult
    /\ response = Return(<<"R","e","c","o","m","m","e","n","d","e","r">>)
    /\ model_calls = 1
    /\ fallback_calls = 1
    /\ result = Return("Tolu")

\* C24: each determine_agent invocation that reaches the AI classifier issues
\* exactly one model request; the request is never issued again, neither
\* after a failure nor after an unrecognised answer.
C24_OneModelRequest ==
    /\ [](op = "determine_agent" =>
              /\ model_calls <= 1
              /\ pc = "await_model" => model_calls = 1
              /\ response # NoResult => (model_calls = 1 /\ pc = "done"))
    /\ [][response # NoResult => model_calls' = model_calls]_vars

\* the one request failed, the heuristic answered, and the invocation ended
\* with that single request
C24_Witness ==
    /\ op = "determine_agent" /\ pc = "done"
    /\ response = Raise("ConnectionError")
    /\ model_calls = 1
    /\ fallback_calls = 1
    /\ result.kind = "return"

---------------------------------------------------------------------------
(* Orchestrator.review_submission: the review, then the CV bullet          *)

\* review.get("passed")
ReviewPassed(r) ==
    IF DictHas(r, <<"p","a","s","s","e","d">>) THEN DictGet(r, <<"p","a","s","s","e","d">>) ELSE JNone

InitReview ==
    /\ op = "Orchestrator.review_submission"
    /\ pc = "start"
    /\ task_title \in TaskTitles
    /\ message = <<>>
    /\ context = [is_submission |-> FALSE, is_first_login |-> FALSE]
    /\ response = NoResult
    /\ result = NoResult
    /\ model_calls = 0
    /\ fallback_calls = 0
    /\ agent = NoResult
    /\ earlier = NoResult
    /\ review = NoResult
    /\ chat_history = <<>>
    /\ prompt = <<>>

\* orchestrator.py line 248, sola.py lines 51-85: the review call is issued
ReviewCall ==
    /\ op = "Orchestrator.review_submission"
    /\ pc = "start"
    /\ pc' = "await_review"
    /\ model_calls' = model_calls + 1
    /\ UNCHANGED <<op, task_title, message, context, response, result,
                   fallback_calls, agent, earlier, review, chat_history, prompt>>

\* the review call returned text: sola.review_submission returns the review,
\* which line 255 binds to review and line 256 tests, and the CV-bullet call
\* is issued when it passed; or sola.review_submission raises, and review is
\* not bound
ReviewModelReturns(text, room, compiled) ==
    /\ op = "Orchestrator.review_submission"
    /\ pc = "await_review"
    /\ response' = Return(text)
    /\ \E r \in {SolaReviewSubmission(text, room, compiled)} :
           IF r.kind = "raise"
           THEN /\ pc' = "done"
                /\ result' = r
                /\ UNCHANGED <<review, model_calls>>
           ELSE IF Truthy(ReviewPassed(r.value))
           THEN /\ review' = r
                /\ pc' = "await_bullet"
                /\ model_calls' = model_calls + 1
                /\ UNCHANGED result
           ELSE /\ review' = r
                /\ pc' = "done"
                /\ result' = r
                /\ UNCHANGED model_calls
    /\ UNCHANGED <<op, task_title, message, context, fallback_calls, agent,
                   earlier, chat_history, prompt>>

\* the review call raised: sola.review_submission raises, and so does
\* Orchestrator.review_submission
ReviewModelRaises(err) ==
    /\ op = "Orchestrator.review_submission"
    /\ pc = "await_review"
    /\ response' = Raise(err)
    /\ result' = OnStructuredError("sola.review_submission", err)
    /\ pc' = "done"
    /\ UNCHANGED <<op, task_title, message, context, model_calls,
                   fallback_calls, agent, earlier, review, chat_history, prompt>>

\* the review call returned None or a response whose text cannot be read:
\* sola.review_submission returns its fallback review, which did not pass,
\* or raises, and review is then not bound
ReviewModelReturnsNoText(text_err) ==
    /\ op = "Orchestrator.review_submission"
    /\ pc = "await_review"
    /\ response' = [kind |-> "no_text", value |-> text_err]
    /\ \E r \in {OnStructuredNoText("sola.review_submission", text_err, task_title)} :
           IF r.kind = "raise"
           THEN /\ pc' = "done"
                /\ result' = r
                /\ UNCHANGED <<review, model_calls>>
           ELSE IF Truthy(ReviewPassed(r.value))
           THEN /\ review' = r
                /\ pc' = "await_bullet"
                /\ model_calls' = model_calls + 1
                /\ UNCHANGED result
           ELSE /\ review' = r
                /\ pc' = "done"
                /\ result' = r
                /\ UNCHANGED model_calls
    /\ UNCHANGED <<op, task_title, message, context, fallback_calls, agent,
                   earlier, chat_history, prompt>>

\* the CV-bullet call returned text: lines 257-264.  The bullet is stored in
\* the dict that review names, and that same dict is returned.
BulletModelReturns(text, room) ==
    /\ op = "Orchestrator.review_submission"
    /\ pc = "await_bullet"
    /\ response' = Return(text)
    /\ \E b \in {KemiTranslateToCvBullet(text, task_title, room)} :
           IF b.kind = "raise"
           THEN /\ result' = b
                /\ UNCHANGED review
           ELSE /\ review' = Return(DictSet(review.value, <<"p","o","r","t","f","o","l","i","o","_","b","u","l","l","e","t">>, b.value))
                /\ result' = review'
    /\ pc' = "done"
    /\ UNCHANGED <<op, task_title, message, context, model_calls,
                   fallback_calls, agent, earlier, chat_history, prompt>>

\* the CV-bullet call returned None or a response whose text cannot be read
BulletModelReturnsNoText(text_err) ==
    /\ op = "Orchestrator.review_submission"
    /\ pc = "await_bullet"
    /\ response' = [kind |-> "no_text", value |-> text_err]
    /\ \E b \in {OnStructuredNoText("kemi.translate_to_cv_bullet", text_err, task_title)} :
           IF b.kind = "raise"
           THEN /\ result' = b
                /\ UNCHANGED review
           ELSE /\ review' = Return(DictSet(review.value, <<"p","o","r","t","f","o","l","i","o","_","b","u","l","l","e","t">>, b.value))
                /\ result' = review'
    /\ pc' = "done"
    /\ UNCHANGED <<op, task_title, message, context, model_calls,
                   fallback_calls, agent, earlier, chat_history, prompt>>

\* mutant: a failed CV-bullet call is issued again
BulletModelRaises_Retry(err) ==
    /\ op = "Orchestrator.review_submission"
    /\ pc = "await_bullet"
    /\ response' = Raise(err)
    /\ model_calls' = model_calls + 1
    /\ UNCHANGED <<op, pc, task_title, message, context, result,
                   fallback_calls, agent, earlier, review, chat_history, prompt>>

\* the CV-bullet call raised: nothing catches it
BulletModelRaises(err) ==
    /\ op = "Orchestrator.review_submission"
    /\ pc = "await_bullet"
    /\ response' = Raise(err)
    /\ result' = OnStructuredError("kemi.translate_to_cv_bullet", err)
    /\ pc' = "done"
    /\ UNCHANGED <<op, task_title, message, context, model_calls,
                   fallback_calls, agent, earlier, review, chat_history, prompt>>

\* the texts are what the model may answer to the review prompt and to the
\* CV-bullet prompt
NextReview ==
    \/ ReviewCall
    \/ \E text \in {
        <<"{","\"","f","e","e","d","b","a","c","k","\"",":"," ","\"","G","o","o","d","\"",","," ","\"","p","a","s","s","e","d","\"",":"," ","t","r","u","e",","," ","\"","s","c","o","r","e","\"",":"," ","8","5","}">>,
        <<"{","\"","f","e","e","d","b","a","c","k","\"",":"," ","\"","G","o","o","d","\"",","," ","\"","p","a","s","s","e","d","\"",":"," ","t","r","u","e","}">>,
        <<Tick,Tick,Tick,"j","s","o","n","\n","{","\"","f","e","e","d","b","a","c","k","\"",":"," ","\"","G","o","o","d","\"",","," ","\"","p","a","s","s","e","d","\"",":"," ","t","r","u","e",","," ","\"","s","c","o","r","e","\"",":"," ","9","0","}","\n",Tick,Tick,Tick>>,
        <<"{","\"","f","e","e","d","b","a","c","k","\"",":"," ","\"","W","e","a","k","\"",","," ","\"","p","a","s","s","e","d","\"",":"," ","f","a","l","s","e",","," ","\"","s","c","o","r","e","\"",":"," ","4","0","}">>,
        <<"{","\"","f","e","e","d","b","a","c","k","\"",":"," ","\"","W","e","a","k","\"",","," ","\"","p","a","s","s","e","d","\"",":"," ","f","a","l","s","e",","," ","\"","p","o","r","t","f","o","l","i","o","_","b","u","l","l","e","t","\"",":"," ","\"","m","i","n","e","\"","}">>,
        <<"{","\"","f","e","e","d","b","a","c","k","\"",":"," ","\"","F","i","n","e","\"",","," ","\"","p","a","s","s","e","d","\"",":"," ","\"","y","e","s","\"","}">>,
        <<"{","\"","f","e","e","d","b","a","c","k","\"",":"," ","\"","F","i","n","e","\"",","," ","\"","p","a","s","s","e","d","\"",":"," ","1",","," ","\"","p","o","r","t","f","o","l","i","o","_","b","u","l","l","e","t","\"",":"," ","\"","m","i","n","e","\"","}">>,
        <<"{","\"","f","e","e","d","b","a","c","k","\"",":"," ","\"","W","e","a","k","\"",","," ","\"","p","a","s","s","e","d","\"",":"," ","0","}">>,
        <<"{","\"","f","e","e","d","b","a","c","k","\"",":"," ","\"","W","e","a","k","\"",","," ","\"","p","a","s","s","e","d","\"",":"," ","n","u","l","l","}">>,
        <<"{","\"","f","e","e","d","b","a","c","k","\"",":"," ","\"","i","t","\\","u","0","0","2","7","s"," ","w","e","a","k","\"",","," ","\"","p","a","s","s","e","d","\"",":"," ","2","e","-","3","2","4","}">>,
        <<"{","\"","f","e","e","d","b","a","c","k","\"",":"," ","\"","F","i","n","e","\"",","," ","\"","p","a","s","s","e","d","\"",":"," ","3","e","-","3","2","4","}">>,
        <<"{","\"","p","a","s","s","e","d","\"",":"," ","t","r","u","e",","," ","\"","s","c","o","r","e","\"",":"," ","8","5","}">>,
        <<"S","o","r","r","y",","," ","I"," ","c","a","n","'","t"," ","p","r","o","c","e","s","s"," ","t","h","i","s",".">>,
        <<"[","{","\"","f","e","e","d","b","a","c","k","\"",":"," ","\"","G","o","o","d","\"",","," ","\"","p","a","s","s","e","d","\"",":"," ","t","r","u","e","}","]">>,
        <<"[","[","[","[","[","1","]","]","]","]","]">>,
        <<"{","\"","f","e","e","d","b","a","c","k","\"",":"," ","\"","G","o","o","d","\"",","," ","\"","p","a","s","s","e","d","\"",":"," ","t","r","u","e",","," ","\"","n","o","t","e","s","\"",":"," ","[","[","[","[","1","]","]","]","]","}">> },
         room \in RecursionRooms, compiled \in BOOLEAN :
           ReviewModelReturns(text, room, compiled)
    \/ \E err \in ModelErrors \cup Interrupts : ReviewModelRaises(err)
    \/ \E text_err \in ModelErrors \cup Interrupts \cup {"None"} : ReviewModelReturnsNoText(text_err)
    \/ \E text \in {
        <<"{","\"","s","k","i","l","l","_","t","a","g","\"",":"," ","\"","S","Q","L","\"",","," ","\"","b","u","l","l","e","t","_","p","o","i","n","t","\"",":"," ","\"","B","u","i","l","t"," ","a"," ","s","a","l","e","s"," ","r","e","p","o","r","t","\"","}">>,
        <<Tick,Tick,Tick,"j","s","o","n","\n","{","\"","s","k","i","l","l","_","t","a","g","\"",":"," ","\"","S","E","O","\"",","," ","\"","b","u","l","l","e","t","_","p","o","i","n","t","\"",":"," ","\"","A","u","d","i","t","e","d"," ","a"," ","s","i","t","e","\"","}","\n",Tick,Tick,Tick>>,
        <<"S","o","r","r","y",","," ","I"," ","c","a","n","'","t"," ","p","r","o","c","e","s","s"," ","t","h","i","s",".">>,
        <<"[","\"","B","u","i","l","t"," ","a"," ","s","a","l","e","s"," ","r","e","p","o","r","t","\"","]">>,
        <<"\"","B","u","i","l","t"," ","a"," ","s","a","l","e","s"," ","r","e","p","o","r","t","\"">>,
        <<"{","\"","s","k","i","l","l","_","t","a","g","\"",":"," ","[","[","[","[","\"","S","Q","L","\"","]","]","]","]",","," ","\"","b","u","l","l","e","t","_","p","o","i","n","t","\"",":"," ","\"","B","u","i","l","t"," ","a"," ","s","a","l","e","s"," ","r","e","p","o","r","t","\"","}">> }, room \in RecursionRooms :
           BulletModelReturns(text, room)
    \/ \E err \in ModelErrors \cup Interrupts : BulletModelRaises(err)
    \/ \E text_err \in ModelErrors \cup Interrupts \cup {"None"} : BulletModelReturnsNoText(text_err)

SpecReview == InitReview /\ [][NextReview]_vars

\* one request to the Orchestrator: a chat message or a submission to review
SpecRequest == (InitRoute \/ InitReview) /\ [][NextRoute \/ NextReview]_vars

---------------------------------------------------------------------------
(* Claims about Orchestrator.review_submission, checked under SpecReview   *)

\* the review passed: line 256 found its passed entry truthy
Passed == review.kind = "return" /\ Truthy(ReviewPassed(review.value))

\* C23: in Orchestrator.review_submission the CV-bullet call is issued only
\* after the review call has completed and only if the review's passed is
\* true, as line 256 reads it; the two calls are never in flight together;
\* and the returned result has a portfolio_bullet key exactly when the review
\* passed.
C23_PortfolioBulletIffPassed ==
    op = "Orchestrator.review_submission" =>
        /\ pc = "await_review" => (model_calls = 1 /\ review = NoResult)
        /\ pc = "await_bullet" => (model_calls = 2 /\ Passed)
        /\ model_calls = 2 => Passed
        /\ (pc = "done" /\ result.kind = "return") =>
               (DictHas(result.value, <<"p","o","r","t","f","o","l","i","o","_","b","u","l","l","e","t">>) <=> Passed)

---------------------------------------------------------------------------
(* Claims about one request, checked under SpecRequest                     *)

\* C25: a request, route_message or Orchestrator.review_submission, issues
\* two model calls at most, one at a time: a step issues one call at most,
\* and the second call is issued by the step in which the first one returns.
C25_AtMostTwoSequentialCalls ==
    /\ [](op \in {"route_message", "Orchestrator.review_submission"} =>
              model_calls <= 2)
    /\ [][/\ model_calls' <= model_calls + 1
          /\ model_calls' = model_calls + 1 =>
                 \/ model_calls = 0 /\ response = NoResult
                 \/ model_calls = 1 /\ response = NoResult
                        /\ response'.kind = "return"]_vars

\* a review request made both its calls, and the second one failed
C25_Witness ==
    /\ op = "Orchestrator.review_submission" /\ pc = "done"
    /\ model_calls = 2
    /\ review.kind = "return"
    /\ response = Raise("TimeoutError")
    /\ result = Raise("TimeoutError")

---------------------------------------------------------------------------
(* Claims about the dispatch of route_message, checked under SpecRoute     *)

\* C27: whatever identity determine_agent returns, by a hard rule, from the
\* classifier's answer or from the fallback, is one of the four members the
\* if/elif chain of route_message tests for, so the chain selects that
\* agent's generation function and never falls through to its else branch.
C27_EveryAgentHasBranch ==
    (op = "route_message" /\ agent.kind = "return") =>
        /\ agent.value \in {"Tolu", "Emem", "Sola", "Kemi"}
        /\ Generator(agent.value).kind = "return"
        /\ Generator(agent.value).value =
               CASE agent.value = "Tolu" -> "tolu.respond_to_message"
                 [] agent.value = "Emem" -> "emem.respond_to_message"
                 [] agent.value = "Sola" -> "sola.respond_to_message"
                 [] agent.value = "Kemi" -> "kemi.respond_to_message"

\* the classifier's answer was not a name, the fallback chose Kemi, and the
\* chain has Kemi's branch
C27_Witness ==
    /\ op = "route_message" /\ pc = "done"
    /\ response = Return(<<"S","o","l","a",".">>)
    /\ fallback_calls = 1
    /\ agent = Return("Kemi")
    /\ Generator(agent.value) = Return("kemi.respond_to_message")

---------------------------------------------------------------------------
(* Claims about sola.review_submission, checked under SpecStructured       *)

\* the model's review text once its fence is stripped
ReviewText == SolaStripFence(Strip(response.value))

\* the reviews the text holds: the objects with feedback and passed that
\* parts of it decode to
ReviewsIn(text) == {object \in ObjectsIn(text) : ValidReview(object)}

\* C28: when the model's review text, its fence stripped, holds a decodable
\* JSON object with feedback and passed among commentary, braces in the
\* commentary included, sola.review_submission returns a review with the
\* feedback and passed of such an object, not the rejection default.
C28_CommentedObjectIsReturned ==
    (ReviewReturned /\ ReviewsIn(ReviewText) # {}
        /\ ~JsonLoads(Strip(ReviewText), Len(ReviewText)).ok) =>
        /\ result.kind = "return"
        /\ result.value # ReviewDefault(response.value)
        /\ \E object \in ReviewsIn(ReviewText) :
               /\ DictGet(result.value, <<"f","e","e","d","b","a","c","k">>) = DictGet(object, <<"f","e","e","d","b","a","c","k">>)
               /\ DictGet(result.value, <<"p","a","s","s","e","d">>) = DictGet(object, <<"p","a","s","s","e","d">>)

\* C29: a review sola.review_submission decoded from the model's text, a
\* mapping with feedback and passed, is returned with every key and value it
\* has; when it has no score, and only then, the score 50 is added to it.
C29_MissingScoreIsFifty ==
    (ReviewReturned /\ result.kind = "return"
        /\ result.value # ReviewDefault(response.value)) =>
        \E object \in ReviewsIn(ReviewText) :
            /\ \A i \in 1..Len(object.items) :
                   /\ DictHas(result.value, object.items[i].k)
                   /\ DictGet(result.value, object.items[i].k)
                          = DictGet(object, object.items[i].k)
            /\ IF DictHas(object, <<"s","c","o","r","e">>)
               THEN Len(result.value.items) = Len(object.items)
               ELSE /\ Len(result.value.items) = Len(object.items) + 1
                    /\ DictGet(result.value, <<"s","c","o","r","e">>) = JInt(<<"5","0">>)

\* the model's review had feedback, passed and an entry of its own, and no
\* score: it came back with the score 50 and the rest as it was
C29_Witness ==
    /\ ReviewReturned
    /\ response.value = <<"H","e","r","e"," ","i","s"," ","m","y"," ","r","e","v","i","e","w",":"," ","{","\"","f","e","e","d","b","a","c","k","\"",":"," ","\"","G","o","o","d","\"",","," ","\"","p","a","s","s","e","d","\"",":"," ","t","r","u","e",","," ","\"","a","s","s","e","s","s","e","d","_","l","e","v","e","l","\"",":"," ","\"","L","e","v","e","l"," ","0","\"","}"," ","T","h","a","n","k","s","!">>
    /\ result = Return(JDict(<<
           [k |-> <<"f","e","e","d","b","a","c","k">>, v |-> JStr(<<"G","o","o","d">>)],
           [k |-> <<"p","a","s","s","e","d">>, v |-> JBool(TRUE)],
           [k |-> <<"a","s","s","e","s","s","e","d","_","l","e","v","e","l">>, v |-> JStr(<<"L","e","v","e","l"," ","0">>)],
           [k |-> <<"s","c","o","r","e">>, v |-> JInt(<<"5","0">>)] >>))

---------------------------------------------------------------------------
(* respond_to_message of tolu, emem, sola and kemi                         *)

MaxTurns == 6

RespondOps ==
    {"tolu.respond_to_message", "emem.respond_to_message",
     "sola.respond_to_message", "kemi.respond_to_message"}

\* one pass of the loop: role and content by msg.get with their defaults,
\* then f"{role.upper()}: {content}\n"
TurnLine(msg) ==
    LET role == IF DictHas(msg, <<"r","o","l","e">>)
                THEN DictGet(msg, <<"r","o","l","e">>).s ELSE <<"u","s","e","r">>
        content == IF DictHas(msg, <<"c","o","n","t","e","n","t">>)
                   THEN DictGet(msg, <<"c","o","n","t","e","n","t">>).s ELSE <<>>
    IN  Upper(role) \o <<":"," ">> \o content \o <<"\n">>

\* the lines of the turns from index i on
RECURSIVE TurnLines(_, _)
TurnLines(turns, i) ==
    IF i > Len(turns) THEN <<>>
    ELSE TurnLine(turns[i]) \o TurnLines(turns, i + 1)

\* mutant: the loop runs over the whole history
HistoryText_Whole(history) == TurnLines(history, 1)

\* history_text: the loop over chat_history[-5:]
HistoryText(history) ==
    TurnLines(history, IF Len(history) > 5 THEN Len(history) - 4 ELSE 1)

\* the prompt in which the history and the message stand, from the heading
\* of the recent chat to the end of the user's message; these lines are the
\* same in the four agents, and what stands around them holds neither
RespondPrompt(history, msg) ==
    <<"*","*","R","E","C","E","N","T"," ","C","H","A","T",":","*","*","\n">> \o HistoryText(history)
        \o <<"\n","\n","*","*","U","S","E","R"," ","M","E","S","S","A","G","E",":","*","*","\n">> \o msg \o <<"\n">>

\* a history has at most MaxTurns turns: one of the user, one of the
\* assistant, one without a role
InitRespond ==
    /\ op \in RespondOps
    /\ pc = "start"
    /\ task_title = <<>>
    /\ message = <<"w","h","y","?">>
    /\ context = [is_submission |-> FALSE, is_first_login |-> FALSE]
    /\ response = NoResult
    /\ result = NoResult
    /\ model_calls = 0
    /\ fallback_calls = 0
    /\ agent = NoResult
    /\ earlier = NoResult
    /\ review = NoResult
    /\ chat_history \in
           LET Turns == {
               JDict(<< [k |-> <<"r","o","l","e">>, v |-> JStr(<<"u","s","e","r">>)],
                        [k |-> <<"c","o","n","t","e","n","t">>, v |-> JStr(<<"h","i">>)] >>),
               JDict(<< [k |-> <<"r","o","l","e">>, v |-> JStr(<<"a","s","s","i","s","t","a","n","t">>)],
                        [k |-> <<"c","o","n","t","e","n","t">>, v |-> JStr(<<"o","k">>)] >>),
               JDict(<< [k |-> <<"c","o","n","t","e","n","t">>, v |-> JStr(<<"y","o">>)] >>) }
           IN  UNION {[1..n -> Turns] : n \in 0..MaxTurns}
    /\ prompt = <<>>

\* the prompt is built and the model is called with it
RespondCall ==
    /\ op \in RespondOps
    /\ pc = "start"
    /\ prompt' = RespondPrompt(chat_history, message)
    /\ pc' = "await_model"
    /\ model_calls' = model_calls + 1
    /\ UNCHANGED <<op, task_title, message, context, response, result,
                   fallback_calls, agent, earlier, review, chat_history>>

\* return response.text
RespondModelReturns(text) ==
    /\ op \in RespondOps
    /\ pc = "await_model"
    /\ response' = Return(text)
    /\ result' = Return(text)
    /\ pc' = "done"
    /\ UNCHANGED <<op, task_title, message, context, model_calls,
                   fallback_calls, agent, earlier, review, chat_history, prompt>>

\* the call is in no try block
RespondModelRaises(err) ==
    /\ op \in RespondOps
    /\ pc = "await_model"
    /\ response' = Raise(err)
    /\ result' = Raise(err)
    /\ pc' = "done"
    /\ UNCHANGED <<op, task_title, message, context, model_calls,
                   fallback_calls, agent, earlier, review, chat_history, prompt>>

NextRespond ==
    \/ RespondCall
    \/ RespondModelReturns(<<"T","r","y"," ","t","h","e"," ","d","o","c","s",".">>)
    \/ RespondModelRaises("TimeoutError")

SpecRespond == InitRespond /\ [][NextRespond]_vars

---------------------------------------------------------------------------
(* Claims about respond_to_message, checked under SpecRespond              *)

\* the last n elements of a sequence, all of it when it has fewer
RECURSIVE LastOf(_, _)
LastOf(seq, n) == IF Len(seq) <= n THEN seq ELSE LastOf(Tail(seq), n)

\* C30: the prompt an agent's respond_to_message gives to the model for a
\* history is the prompt for the last 5 turns of that history, it has one
\* line for each of these turns and no other, and the caller's list of turns
\* is never changed.
C30_LastFiveTurnsOnly ==
    /\ [](op \in RespondOps /\ pc # "start" =>
              /\ prompt = RespondPrompt(LastOf(chat_history, 5), message)
              /\ prompt = <<"*","*","R","E","C","E","N","T"," ","C","H","A","T",":","*","*","\n">>
                     \o TurnLines(LastOf(chat_history, 5), 1)
                     \o <<"\n","\n","*","*","U","S","E","R"," ","M","E","S","S","A","G","E",":","*","*","\n">> \o message \o <<"\n">>)
    /\ [][chat_history' = chat_history]_vars

\* a history of six turns: the prompt has the lines of the last five, and
\* the first turn, the only one of the assistant, is not in it
C30_Witness ==
    /\ op = "sola.respond_to_message" /\ pc = "done"
    /\ Len(chat_history) = 6
    /\ DictHas(chat_history[1], <<"r","o","l","e">>)
    /\ DictGet(chat_history[1], <<"r","o","l","e">>) = JStr(<<"a","s","s","i","s","t","a","n","t">>)
    /\ \A i \in 2..6 : ~DictHas(chat_history[i], <<"r","o","l","e">>)
    /\ prompt = <<"*","*","R","E","C","E","N","T"," ","C","H","A","T",":","*","*","\n","U","S","E","R",":"," ","y","o","\n","U","S","E","R",":"," ","y","o","\n","U","S","E","R",":"," ","y","o","\n","U","S","E","R",":"," ","y","o","\n","U","S","E","R",":"," ","y","o","\n","\n","\n","*","*","U","S","E","R"," ","M","E","S","S","A","G","E",":","*","*","\n","w","h","y","?","\n">>
    /\ result = Return(<<"T","r","y"," ","t","h","e"," ","d","o","c","s",".">>)

---------------------------------------------------------------------------
(* Claims about the /chat endpoint, checked under SpecChat                 *)

\* a request to /chat up to the generation call, or the generation call of
\* one agent
SpecChat == (InitRoute \/ InitRespond) /\ [][NextRoute \/ NextRespond]_vars

\* C17: a failure of the model service during an agent's respond_to_message
\* is not replaced by an answer: it leaves respond_to_message, which
\* route_message awaits in no try block, and the endpoint turns it into a
\* failure; a failure of the model service during classification never
\* leaves determine_agent, which gives route_message an agent identity.
C17_OnlyGenerationFailureSurfaces ==
    /\ (op \in RespondOps /\ pc = "done" /\ response.kind = "raise") =>
           /\ result = response
           /\ chat(result).kind = "raise"
    /\ (op = "route_message" /\ pc = "done" /\ response.kind = "raise") =>
           /\ agent.kind = "return"
           /\ agent.value \in AgentName
=============================================================================
